---- MODULE Spec2Model ----
(***************************************************************************)
(* A model of the usage-resolution engine of the AI usage monitor: the TTL *)
(* cache (CacheManager), the monitoring configuration                      *)
(* (MonitoringConfigManager), the aggregator (DataAggregator), the Warp    *)
(* token lifecycle (WarpProvider.getAuthToken), the ordered source         *)
(* fallback of the Anthropic and Copilot providers and the normalisation   *)
(* of raw payloads into ProviderUsage records.                             *)
(*                                                                         *)
(* Time is counted in ticks of five minutes (300 s): the default cache TTL *)
(* of 300 s is one tick, the token refresh buffer of 5 min is one tick and *)
(* the default token lifetime of 3600 s is twelve ticks.  Money is counted *)
(* in whole units.                                                         *)
(***************************************************************************)
EXTENDS Integers, Sequences, FiniteSets, TLC

VARIABLES
    now,        \* Date.now(), in ticks
    cache,      \* CacheManager.cache : Map<string, CacheEntry>
    config,     \* MonitoringConfigManager.config
    agg,        \* the fetchAllUsage call in progress or last returned
    cacheOp,    \* history: the last operation a client made on the cache
    lastSet,    \* history: per key, the last set not yet deleted or cleared
    warp,       \* WarpProvider: cachedToken, cachedTokenExpiry, cachedRefreshToken, manualToken
    keychain,   \* the macOS keychain entry of Warp, as execSync reads it
    callers,    \* the getAuthToken calls in progress or last returned
    res,        \* the last fetchUsage resolution: credentials, sources called, result
    norm,       \* the last raw payload normalised and the record built from it
    fetched,    \* the last fetchUsage call of a provider: answers, requests, outcome
    direct,     \* the last fetchProviderUsageById or checkProviderHealth call
    configStorage,  \* the stored API keys: in memory and in data/api-keys.json
    providers   \* the providers the aggregator holds, each with its credential

vars == <<now, cache, config, agg, cacheOp, lastSet, warp, keychain, callers, res, norm,
          fetched, direct, configStorage, providers>>

\* the state of the server outside the Warp provider
coreVars == <<cache, config, agg, cacheOp, lastSet>>

\* the state of the Warp provider and its keychain
warpVars == <<warp, keychain, callers>>

\* the state outside the cache, the configuration and the aggregator
extVars == <<warpVars, res, norm, fetched, direct, configStorage, providers>>

\* the state outside the Warp provider, the clock apart
nonWarpVars == <<coreVars, res, norm, fetched, direct, configStorage, providers>>

-----------------------------------------------------------------------------
(* Bounds of the model *)

MaxTime == 3
\* new CacheManager(env.cacheTtl): the configured default TTL, in ticks
DefaultTtl == 1
\* the largest ttl a client passes to set
MaxTtl == 2
\* expiration_time of the token in the keychain, in ticks
KeychainExpiry == 2
\* the largest utilization or count a raw payload reports
MaxUtilization == 150

-----------------------------------------------------------------------------
(* Constants of the source *)

\* bufferMs = 5 * 60 * 1000: one tick
BufferMs == 1
\* parseInt(data.expires_in) || 3600: twelve ticks
DefaultExpiresIn == 12
\* Math.round(x * 100 * 10) / 10: percentages have tenths
Tenths == 10

-----------------------------------------------------------------------------
(* CacheManager *)

EmptyMap == [k \in {} |-> 0]

MapPut(m, key, v) == [k \in (DOMAIN m) \cup {key} |-> IF k = key THEN v ELSE m[k]]

MapRemove(m, key) == [k \in (DOMAIN m) \ {key} |-> m[k]]

\* ttl || this.defaultTtl : an omitted ttl (0 stands for it) and a ttl of 0
\* both take the default
EntryTtl(ttl) == IF ttl = 0 THEN DefaultTtl ELSE ttl

CacheSet(c, key, data, ttl, t) ==
    MapPut(c, key, [data |-> data, timestamp |-> t, ttl |-> EntryTtl(ttl)])

Age(entry, t) == t - entry.timestamp

ExpiredWrong(entry, t) == Age(entry, t) >= entry.ttl

\* age > entry.ttl
Expired(entry, t) == Age(entry, t) > entry.ttl

Miss == [hit |-> FALSE]

Hit(v) == [hit |-> TRUE, value |-> v]

\* the value get returns
CacheGetResult(c, key, t) ==
    IF key \notin DOMAIN c THEN Miss
    ELSE IF Expired(c[key], t) THEN Miss
    ELSE Hit(c[key].data)

\* the store get leaves behind: an expired entry is deleted on read
CacheGetStoreWrong(c, key, t) == c

CacheGetStore(c, key, t) ==
    IF key \in DOMAIN c /\ Expired(c[key], t) THEN MapRemove(c, key) ELSE c

CacheDelete(c, key) == MapRemove(c, key)

CacheClear(c) == EmptyMap

CacheCleanupWrong(c, t) ==
    [k \in {j \in DOMAIN c : Age(c[j], t) = 0} |-> c[k]]

\* the setInterval callback of startCleanup
CacheCleanup(c, t) ==
    [k \in {j \in DOMAIN c : ~Expired(c[j], t)} |-> c[k]]

-----------------------------------------------------------------------------
(* MonitoringConfigManager *)

Includes(s, x) == \E i \in 1..Len(s) : s[i] = x

IsEnabledWrong(cfg) == TRUE

IsEnabled(cfg) == cfg.enabled

IsApiMonitoredWrong(cfg, apiName) == TRUE

IsApiMonitored(cfg, apiName) == Includes(cfg.monitoredApis, apiName)

SetEnabledWrong(cfg, enabled) ==
    [cfg EXCEPT !.enabled = enabled, !.monitoredApis = <<>>]

SetEnabled(cfg, enabled) == [cfg EXCEPT !.enabled = enabled]

AddApi(cfg, apiName) ==
    IF apiName # "" /\ ~Includes(cfg.monitoredApis, apiName)
    THEN [cfg EXCEPT !.monitoredApis = Append(@, apiName)]
    ELSE cfg

RemoveApi(cfg, apiName) ==
    [cfg EXCEPT !.monitoredApis = SelectSeq(@, LAMBDA a : a # apiName)]

-----------------------------------------------------------------------------
(* Providers as the aggregator sees them: Provider.fetchUsage returns a    *)
(* promise that fulfils with a ProviderUsage record or rejects.            *)

\* the provider list the aggregator is constructed with
Providers == <<"anthropic", "copilot">>

ApiNames == {"anthropic", "copilot"}

Days == {1, 7}

ActiveUsage(id) ==
    IF id = "anthropic"
    THEN [id |-> id, status |-> "active", requests |-> 3, cost |-> 20,
          hasTokens |-> TRUE, tokens |-> 5]
    ELSE [id |-> id, status |-> "active", requests |-> 1, cost |-> 10,
          hasTokens |-> TRUE, tokens |-> 2]

\* BaseProvider.createErrorUsage: no tokens field
CreateErrorUsage(id) ==
    [id |-> id, status |-> "error", requests |-> 0, cost |-> 0,
     hasTokens |-> FALSE, tokens |-> 0]

Pending == [state |-> "pending"]

Rejected == [state |-> "rejected"]

Fulfilled(u) == [state |-> "fulfilled", value |-> u]

\* what a fetchUsage promise may settle to
Outcomes(id) == {Fulfilled(ActiveUsage(id)), Fulfilled(CreateErrorUsage(id)), Rejected}

-----------------------------------------------------------------------------
(* DataAggregator *)

CacheKeyWrong(days) == "usage:d"

\* `usage:${days}d`
CacheKey(days) == "usage:" \o ToString(days) \o "d"

\* p.tokens || 0
TokensOf(p) == IF p.hasTokens THEN p.tokens ELSE 0

RECURSIVE Reduce(_, _, _)
\* providers.reduce((sum, p) => sum + f(p), 0), from the left
Reduce(field, ps, acc) ==
    IF ps = <<>> THEN acc
    ELSE Reduce(field, Tail(ps),
                acc + (CASE field = "requests" -> Head(ps).requests
                         [] field = "cost" -> Head(ps).cost
                         [] OTHER -> TokensOf(Head(ps))))

CalculateSummaryWrong(ps) ==
    [totalRequests |-> Reduce("requests", ps, 0),
     totalCost |-> Reduce("cost", ps, 0),
     totalTokens |-> Reduce("requests", ps, 0)]

CalculateSummary(ps) ==
    [totalRequests |-> Reduce("requests", ps, 0),
     totalCost |-> Reduce("cost", ps, 0),
     totalTokens |-> Reduce("tokens", ps, 0)]

\* the value returned while monitoring is disabled
DisabledUsageData(t) ==
    [summary |-> [totalRequests |-> 0, totalCost |-> 0, totalTokens |-> 0],
     providers |-> <<>>,
     lastUpdated |-> t]

\* this.providers.filter(provider => isApiMonitored(provider.id))
MonitoredProviders(cfg) == SelectSeq(Providers, LAMBDA id : IsApiMonitored(cfg, id))

RECURSIVE CollectResults(_)
\* the loop over the settled results: a fulfilled value is pushed, a
\* rejection is logged and leaves no record
CollectResults(results) ==
    IF results = <<>> THEN <<>>
    ELSE IF Head(results).state = "fulfilled"
         THEN <<Head(results).value>> \o CollectResults(Tail(results))
         ELSE CollectResults(Tail(results))

BuildUsageData(results, t) ==
    LET ps == CollectResults(results)
    IN  [summary |-> CalculateSummary(ps), providers |-> ps, lastUpdated |-> t]

IdleCall ==
    [pc |-> "idle", days |-> 0, enabled |-> FALSE, hit |-> FALSE,
     invoked |-> <<>>, results |-> <<>>, cacheGets |-> 0, cacheSets |-> 0,
     entryAt |-> 0, result |-> DisabledUsageData(0)]

\* fetchAllUsage up to its first await
FetchAllUsageStart(days) ==
    /\ agg.pc \in {"idle", "done"}
    /\ LET call == [IdleCall EXCEPT !.days = days]
           key == CacheKey(days)
           cached == CacheGetResult(cache, key, now)
       IN  IF ~IsEnabled(config)
           THEN /\ agg' = [call EXCEPT !.pc = "done", !.result = DisabledUsageData(now)]
                /\ cache' = cache
           ELSE IF cached.hit
           THEN /\ agg' = [call EXCEPT !.pc = "done", !.enabled = TRUE, !.hit = TRUE,
                                       !.cacheGets = 1, !.result = cached.value,
                                       !.entryAt = cache[key].timestamp]
                /\ cache' = CacheGetStore(cache, key, now)
           ELSE /\ agg' = [call EXCEPT !.pc = "awaiting", !.enabled = TRUE,
                                       !.cacheGets = 1,
                                       !.invoked = MonitoredProviders(config),
                                       !.results = [i \in 1..Len(MonitoredProviders(config)) |-> Pending]]
                /\ cache' = CacheGetStore(cache, key, now)
    /\ UNCHANGED <<now, config, cacheOp, lastSet>>
    /\ UNCHANGED extVars

\* one provider's fetchUsage promise settles
ProviderSettles(i) ==
    /\ agg.pc = "awaiting"
    /\ i \in 1..Len(agg.results)
    /\ agg.results[i] = Pending
    /\ \E o \in Outcomes(agg.invoked[i]) :
          agg' = [agg EXCEPT !.results[i] = o]
    /\ UNCHANGED <<now, cache, config, cacheOp, lastSet>>
    /\ UNCHANGED extVars

\* fetchAllUsage after await Promise.allSettled(...)
FetchAllUsageFinish ==
    /\ agg.pc = "awaiting"
    /\ \A i \in 1..Len(agg.results) : agg.results[i] # Pending
    /\ LET usageData == BuildUsageData(agg.results, now)
       IN  /\ cache' = CacheSet(cache, CacheKey(agg.days), usageData, 0, now)
           /\ agg' = [agg EXCEPT !.pc = "done", !.result = usageData,
                                 !.cacheSets = 1, !.entryAt = now]
    /\ UNCHANGED <<now, config, cacheOp, lastSet>>
    /\ UNCHANGED extVars

AdminSetEnabled(b) ==
    /\ config' = SetEnabled(config, b)
    /\ UNCHANGED <<now, cache, agg, cacheOp, lastSet>>
    /\ UNCHANGED extVars

AdminAddApi(a) ==
    /\ config' = AddApi(config, a)
    /\ UNCHANGED <<now, cache, agg, cacheOp, lastSet>>
    /\ UNCHANGED extVars

AdminRemoveApi(a) ==
    /\ config' = RemoveApi(config, a)
    /\ UNCHANGED <<now, cache, agg, cacheOp, lastSet>>
    /\ UNCHANGED extVars

Tick ==
    /\ now < MaxTime
    /\ now' = now + 1
    /\ UNCHANGED <<cache, config, agg, cacheOp, lastSet>>
    /\ UNCHANGED extVars

Sweep ==
    /\ cache' = CacheCleanup(cache, now)
    /\ UNCHANGED <<now, config, agg, cacheOp, lastSet>>
    /\ UNCHANGED extVars

-----------------------------------------------------------------------------
(* WarpProvider: the fields and the calls of getAuthToken *)

\* an optional value: undefined, or a value
None == <<>>

Some(x) == <<x>>

\* the provider as the constructor leaves it; an undefined or empty string is ""
NewWarpProvider(apiKey) ==
    [cachedToken |-> "", cachedTokenExpiry |-> None, cachedRefreshToken |-> "",
     manualToken |-> apiKey]

\* the overlapping callers of getAuthToken (fetchUsage, healthCheck)
Callers == {1, 2}

\* no refresh request has been answered in this call
NoAnswer == [ok |-> FALSE, none |-> TRUE]

IdleCaller ==
    [pc |-> "idle", sentRt |-> "", idToken |-> "", expirationTime |-> None,
     result |-> "", keychainReads |-> 0, refreshes |-> 0, answer |-> NoAnswer]

\* execSync('security find-generic-password ...') throws or JSON.parse throws
KeychainThrows ==
    [kind |-> "throws", idToken |-> "", expirationTime |-> None, refreshToken |-> ""]

\* no fetchUsage has resolved yet
NoResolution == [provider |-> "none", trace |-> <<>>]

\* no payload has been normalised yet
NoNormalisation == [source |-> "none"]

\* no provider's fetchUsage has been called yet
NoFetch == [provider |-> "none"]

\* neither fetchProviderUsageById nor checkProviderHealth has been called yet
NoDirect == [op |-> "none", invoked |-> <<>>]

\* the state outside the cache, the configuration and the aggregator at start-up
ExtInit ==
    /\ warp = NewWarpProvider("")
    /\ keychain = KeychainThrows
    /\ callers = [c \in Callers |-> IdleCaller]
    /\ res = NoResolution
    /\ norm = NoNormalisation
    /\ fetched = NoFetch
    /\ direct = NoDirect
    /\ configStorage = [config |-> EmptyMap, file |-> EmptyMap]
    /\ providers = [id \in ApiNames |-> <<>>]

NoCacheOp == [op |-> "none"]

Init ==
    /\ now = 0
    /\ cache = EmptyMap
    /\ config \in {[enabled |-> e, monitoredApis |-> m] :
                     e \in BOOLEAN, m \in {Providers, <<"anthropic">>}}
    /\ agg = IdleCall
    /\ cacheOp = NoCacheOp
    /\ lastSet = EmptyMap
    /\ ExtInit

Next ==
    \/ \E d \in Days : FetchAllUsageStart(d)
    \/ \E i \in 1..Len(Providers) : ProviderSettles(i)
    \/ FetchAllUsageFinish
    \/ \E b \in BOOLEAN : AdminSetEnabled(b)
    \/ \E a \in ApiNames : AdminAddApi(a)
    \/ \E a \in ApiNames : AdminRemoveApi(a)
    \/ Tick
    \/ Sweep

Spec == Init /\ [][Next]_vars

\* the server started with MONITORED_APIS=anthropic,github and GITHUB_TOKEN
\* set: loadEnv takes the list as written, createProviders builds the
\* Anthropic and the Copilot provider
InitDocumented ==
    /\ now = 0
    /\ cache = EmptyMap
    /\ config \in {[enabled |-> e, monitoredApis |-> <<"anthropic", "github">>] :
                     e \in BOOLEAN}
    /\ agg = IdleCall
    /\ cacheOp = NoCacheOp
    /\ lastSet = EmptyMap
    /\ ExtInit

SpecDocumented == InitDocumented /\ [][Next]_vars

-----------------------------------------------------------------------------
(* The cache driven directly by a client: SpecCache *)

CacheKeys == {"k1", "k2"}

CacheValues == {"v1", "v2"}

\* the ttl argument of set: 0 stands for an omitted ttl
TtlArgs == {0, 1, MaxTtl}

\* set(key, data, ttl)
ClientSet(key, data, ttl) ==
    /\ cache' = CacheSet(cache, key, data, ttl, now)
    /\ lastSet' = MapPut(lastSet, key,
                         [value |-> data, at |-> now,
                          ttl |-> IF ttl = 0 THEN DefaultTtl ELSE ttl])
    /\ UNCHANGED <<now, config, agg, cacheOp>>
    /\ UNCHANGED extVars

\* get(key)
ClientGet(key) ==
    /\ cacheOp' = [op |-> "get", key |-> key, at |-> now,
                   found |-> key \in DOMAIN cache,
                   result |-> CacheGetResult(cache, key, now)]
    /\ cache' = CacheGetStore(cache, key, now)
    /\ UNCHANGED <<now, config, agg, lastSet>>
    /\ UNCHANGED extVars

\* delete(key)
ClientDelete(key) ==
    /\ cache' = CacheDelete(cache, key)
    /\ lastSet' = MapRemove(lastSet, key)
    /\ UNCHANGED <<now, config, agg, cacheOp>>
    /\ UNCHANGED extVars

\* clear()
ClientClear ==
    /\ cache' = CacheClear(cache)
    /\ lastSet' = EmptyMap
    /\ UNCHANGED <<now, config, agg, cacheOp>>
    /\ UNCHANGED extVars

\* the setInterval callback runs beside the client's calls; cleaned is its
\* count of deleted entries
SweepRuns ==
    /\ cache' = CacheCleanup(cache, now)
    /\ cacheOp' = [op |-> "sweep", at |-> now,
                   cleaned |-> Cardinality(DOMAIN cache) - Cardinality(DOMAIN cache')]
    /\ UNCHANGED <<now, config, agg, lastSet>>
    /\ UNCHANGED extVars

InitCache ==
    /\ now = 0
    /\ cache = EmptyMap
    /\ config = [enabled |-> TRUE, monitoredApis |-> Providers]
    /\ agg = IdleCall
    /\ cacheOp = NoCacheOp
    /\ lastSet = EmptyMap
    /\ ExtInit

NextCache ==
    \/ \E k \in CacheKeys, v \in CacheValues, ttl \in TtlArgs : ClientSet(k, v, ttl)
    \/ \E k \in CacheKeys : ClientGet(k)
    \/ \E k \in CacheKeys : ClientDelete(k)
    \/ ClientClear
    \/ Tick
    \/ SweepRuns

SpecCache == InitCache /\ [][NextCache]_vars

-----------------------------------------------------------------------------
(* WarpProvider.getAuthToken and refreshFirebaseToken: SpecWarp *)

\* what the keychain read can yield: a throw, an empty output, or a user
\* record with id_token.id_token, expiration_time and refresh_token
KeychainEmpty ==
    [kind |-> "empty", idToken |-> "", expirationTime |-> None, refreshToken |-> ""]

KeychainUser(idToken, expirationTime, refreshToken) ==
    [kind |-> "user", idToken |-> idToken, expirationTime |-> expirationTime,
     refreshToken |-> refreshToken]

KeychainStates ==
    {KeychainThrows, KeychainEmpty,
     KeychainUser("", None, "rt0"),
     KeychainUser("kc", None, ""),
     KeychainUser("kc", Some(KeychainExpiry), "rt0"),
     KeychainUser("kc", Some(KeychainExpiry), "")}

NullRefreshWrong(response) ==
    [ok |-> FALSE, response |-> response,
     logged |-> IF response.status >= 400 THEN "error" ELSE "debug"]

\* refreshFirebaseToken: null on any failure, else the new credentials.
\* response is the failed answer of the token endpoint (status 0: fetch
\* threw) and logged the highest level the call logged at: the "REFRESH TOKEN
\* EXPIRED OR REVOKED" banner at error level, else one debug line
NullRefresh(response) ==
    [ok |-> FALSE, response |-> response,
     logged |-> IF /\ response.status # 0
                   /\ \/ response.errorCode = "TOKEN_EXPIRED"
                      \/ response.errorCode = "INVALID_REFRESH_TOKEN"
                      \/ response.status = 400
                THEN "error" ELSE "debug"]

Refreshed(idToken, refreshToken, expiresIn) ==
    [ok |-> TRUE, idToken |-> idToken, refreshToken |-> refreshToken,
     expiresIn |-> expiresIn]

\* id tokens the token endpoint issues
FreshTokens == {"fresh1", "fresh2"}

\* expires_in of a refresh response, in ticks; 0 is an absent or unparsable value
ExpiresInValues == {0, 2}

\* the token endpoint's answers to a request made with refreshToken:
\* refresh_token may be absent ("") and expires_in may be absent (0)
RefreshFirebaseToken(refreshToken) ==
    {NullRefresh(response) :
        response \in {[status |-> 400, errorCode |-> "TOKEN_EXPIRED"],
                      [status |-> 500, errorCode |-> "Internal Server Error"],
                      [status |-> 0, errorCode |-> ""]}} \cup
    {Refreshed(tok,
               IF rt = "" THEN refreshToken ELSE rt,
               IF e = 0 THEN DefaultExpiresIn ELSE e) :
        tok \in FreshTokens, rt \in {"", "rt1"}, e \in ExpiresInValues}

TokenValidWrong(w, t) == FALSE

\* cachedToken && cachedTokenExpiry && expiry - bufferMs > Date.now()
TokenValid(w, t) ==
    /\ w.cachedToken # ""
    /\ w.cachedTokenExpiry # None
    /\ w.cachedTokenExpiry[1] - BufferMs > t

ApplyRefreshedWrong(w, refreshed, t) ==
    [w EXCEPT !.cachedToken = refreshed.idToken]

\* the three assignments after a successful refresh
ApplyRefreshed(w, refreshed, t) ==
    [w EXCEPT !.cachedToken = refreshed.idToken,
              !.cachedRefreshToken = refreshed.refreshToken,
              !.cachedTokenExpiry = Some(t + refreshed.expiresIn)]

\* return token (null is "")
Return(r, token) == [r EXCEPT !.pc = "done", !.result = token]

\* await this.refreshFirebaseToken(refreshToken) at the place pc
AwaitRefresh(r, pc, refreshToken) ==
    [r EXCEPT !.pc = pc, !.sentRt = refreshToken, !.refreshes = @ + 1]

\* the end of the catch block: the manual token, or null
ManualFallback(w, r) == [warp |-> w, caller |-> Return(r, w.manualToken)]

\* the catch block
CatchPath(w, r) ==
    IF w.cachedRefreshToken # ""
    THEN [warp |-> w, caller |-> AwaitRefresh(r, "catchRefresh", w.cachedRefreshToken)]
    ELSE ManualFallback(w, r)

\* "Cache the keychain token"
CacheKeychainToken(w, r, idToken, expirationTime) ==
    [warp |-> [w EXCEPT !.cachedToken = idToken,
                        !.cachedTokenExpiry =
                            IF expirationTime # None THEN expirationTime ELSE @],
     caller |-> Return(r, idToken)]

\* the try block up to its await
ReadKeychain(w, r, kc, t) ==
    LET r1 == [r EXCEPT !.keychainReads = @ + 1]
    IN  IF kc.kind = "throws" THEN CatchPath(w, r1)
        ELSE IF kc.kind = "empty" \/ kc.idToken = ""
        THEN [warp |-> w, caller |-> Return(r1, "")]
        ELSE LET w1 == IF kc.refreshToken # ""
                       THEN [w EXCEPT !.cachedRefreshToken = kc.refreshToken]
                       ELSE w
                 needsRefresh == /\ kc.expirationTime # None
                                 /\ kc.expirationTime[1] - BufferMs < t
             IN  IF needsRefresh /\ kc.refreshToken # ""
                 THEN [warp |-> w1,
                       caller |-> [AwaitRefresh(r1, "keychainRefresh", kc.refreshToken)
                                      EXCEPT !.idToken = kc.idToken,
                                             !.expirationTime = kc.expirationTime]]
                 ELSE CacheKeychainToken(w1, r1, kc.idToken, kc.expirationTime)

\* getAuthToken up to its first await or its return
GetAuthTokenStart(c) ==
    /\ callers[c].pc \in {"idle", "done"}
    /\ LET r == IdleCaller
           step == IF TokenValid(warp, now)
                   THEN [warp |-> warp, caller |-> Return(r, warp.cachedToken)]
                   ELSE IF /\ warp.cachedToken # ""
                           /\ warp.cachedTokenExpiry # None
                           /\ warp.cachedRefreshToken # ""
                   THEN [warp |-> warp,
                         caller |-> AwaitRefresh(r, "proactive", warp.cachedRefreshToken)]
                   ELSE ReadKeychain(warp, r, keychain, now)
       IN  /\ warp' = step.warp
           /\ callers' = [callers EXCEPT ![c] = step.caller]
    /\ UNCHANGED <<now, keychain>>
    /\ UNCHANGED nonWarpVars

\* the refresh request of caller c is answered and getAuthToken runs on to
\* its next await or its return
RefreshReturns(c) ==
    /\ callers[c].pc \in {"proactive", "keychainRefresh", "catchRefresh"}
    /\ \E refreshed \in RefreshFirebaseToken(callers[c].sentRt) :
          LET r == [callers[c] EXCEPT !.answer = refreshed]
              step == IF refreshed.ok
                      THEN [warp |-> ApplyRefreshed(warp, refreshed, now),
                            caller |-> Return(r, refreshed.idToken)]
                      ELSE IF r.pc = "proactive"
                      THEN ReadKeychain(warp, r, keychain, now)
                      ELSE IF r.pc = "keychainRefresh"
                      THEN CacheKeychainToken(warp, r, r.idToken, r.expirationTime)
                      ELSE ManualFallback(warp, r)
          IN  /\ warp' = step.warp
              /\ callers' = [callers EXCEPT ![c] = step.caller]
    /\ UNCHANGED <<now, keychain>>
    /\ UNCHANGED nonWarpVars

\* the Warp application rewrites its keychain entry, or the entry goes away
KeychainChanges(kc) ==
    /\ kc # keychain
    /\ keychain' = kc
    /\ UNCHANGED <<now, warp, callers>>
    /\ UNCHANGED nonWarpVars

InitWarp ==
    /\ now = 0
    /\ cache = EmptyMap
    /\ config = [enabled |-> TRUE, monitoredApis |-> Providers]
    /\ agg = IdleCall
    /\ cacheOp = NoCacheOp
    /\ lastSet = EmptyMap
    /\ warp \in {NewWarpProvider(k) : k \in {"", "env"}}
    /\ keychain \in KeychainStates
    /\ callers = [c \in Callers |-> IdleCaller]
    /\ res = NoResolution
    /\ norm = NoNormalisation
    /\ fetched = NoFetch
    /\ direct = NoDirect
    /\ configStorage = [config |-> EmptyMap, file |-> EmptyMap]
    /\ providers = [id \in ApiNames |-> <<>>]

NextWarp ==
    \/ \E c \in Callers : GetAuthTokenStart(c)
    \/ \E c \in Callers : RefreshReturns(c)
    \/ \E kc \in KeychainStates : KeychainChanges(kc)
    \/ Tick

SpecWarp == InitWarp /\ [][NextWarp]_vars

-----------------------------------------------------------------------------
(* The ordered source fallback of fetchUsage: SpecResolve *)

\* the state outside one resolution
nonResVars == <<now, coreVars, warpVars, norm, fetched, direct, configStorage, providers>>

\* a ProviderUsage as far as the fallback looks at it: its status, and the
\* source that built it
Record(status, from) == [status |-> status, from |-> from]

\* the accumulator of one resolution: the calls made so far, the number of
\* stats-cache reads and of API-key probes among them, and the record at hand
Begin == [trace |-> <<>>, reads |-> 0, probes |-> 0, result |-> Record("none", "none")]

\* a source (or an enrichment read) is called and answers with status
Call(acc, source, status) ==
    [acc EXCEPT !.trace = Append(@, [source |-> source, status |-> status])]

\* the credentials of the Anthropic providers
AnthropicCfgs == [session : BOOLEAN, oauthToken : BOOLEAN, apiKey : BOOLEAN]

\* what the outside answers during one resolution: the web-session endpoint,
\* the OAuth endpoint, whether stats-cache.json is readable at the first and
\* at the second source-level read, and the first and second probe
AnthropicEnvs ==
    [web : {"active", "error"}, oauth : {"active", "error"},
     stats : [1..2 -> BOOLEAN], probe : [1..2 -> {"active", "error"}]]

\* fetchApiKeyUsage: an error record without a request when there is no key
FetchApiKeyUsage(acc, cfg, env) ==
    LET n == acc.probes + 1
        status == IF cfg.apiKey THEN env.probe[n] ELSE "error"
    IN  [Call(acc, "probe", status) EXCEPT !.probes = n,
                                           !.result = Record(status, "probe")]

\* const localStats = readLocalStats(); if (localStats) return
\* buildUsageFromLocalStats(localStats); return await fetchApiKeyUsage()
LocalThenProbe(acc, cfg, env) ==
    LET n == acc.reads + 1
    IN  IF env.stats[n]
        THEN [Call(acc, "local", "active") EXCEPT !.reads = n,
                                                  !.result = Record("active", "local")]
        ELSE FetchApiKeyUsage([Call(acc, "local", "none") EXCEPT !.reads = n], cfg, env)

\* fetchWebSessionUsage: on success the stats cache is read for enrichment
FetchWebSessionUsage(acc, env) ==
    IF env.web = "active"
    THEN [Call(Call(acc, "web", "active"), "enrich", "none")
             EXCEPT !.result = Record("active", "web")]
    ELSE [Call(acc, "web", "error") EXCEPT !.result = Record("error", "web")]

\* fetchOAuthUsage of openai.ts: on a failed request it falls back by itself
FetchOAuthUsage(acc, cfg, env) ==
    IF env.oauth = "active"
    THEN [Call(Call(acc, "oauth", "active"), "enrich", "none")
             EXCEPT !.result = Record("active", "oauth")]
    ELSE LocalThenProbe(Call(acc, "oauth", "error"), cfg, env)

\* fetchOAuthUsage of anthropic.ts: no enrichment read on success
LegacyFetchOAuthUsage(acc, cfg, env) ==
    IF env.oauth = "active"
    THEN [Call(acc, "oauth", "active") EXCEPT !.result = Record("active", "oauth")]
    ELSE LocalThenProbe(Call(acc, "oauth", "error"), cfg, env)

\* AnthropicProvider.fetchUsage of openai.ts
AnthropicResolve(cfg, env) ==
    LET a1 == IF cfg.session THEN FetchWebSessionUsage(Begin, env) ELSE Begin
    IN  IF cfg.session /\ a1.result.status = "active" THEN a1
        ELSE LET a2 == IF cfg.oauthToken THEN FetchOAuthUsage(a1, cfg, env) ELSE a1
             IN  IF cfg.oauthToken /\ a2.result.status = "active" THEN a2
                 ELSE LocalThenProbe(a2, cfg, env)

\* AnthropicProvider.fetchUsage of anthropic.ts; every active record of its
\* sources carries a rateLimit
LegacyAnthropicResolve(cfg, env) ==
    LET a2 == IF cfg.oauthToken THEN LegacyFetchOAuthUsage(Begin, cfg, env) ELSE Begin
    IN  IF cfg.oauthToken /\ a2.result.status = "active" THEN a2
        ELSE LocalThenProbe(a2, cfg, env)

\* the credentials of the Copilot provider
CopilotCfgs == [enterprise : BOOLEAN, org : BOOLEAN, copilotToken : BOOLEAN]

\* the answers to one Copilot resolution; basic "error" is a thrown error
CopilotEnvs ==
    [enterprise : {"active", "none"}, org : {"active", "none"},
     userQuota : {"active", "none"}, token : {"active", "none"},
     basic : {"active", "error"}]

\* the copilotToken branch: fetchUserQuota, fetchDetailedUsage, then
\* fetchCopilotToken when the quota answer is unusable
CopilotTokenBranch(acc, env) ==
    LET a1 == Call(Call(acc, "userQuota", env.userQuota), "detailedUsage", "none")
    IN  IF env.userQuota = "active"
        THEN [a1 EXCEPT !.result = Record("active", "userQuota")]
        ELSE [Call(a1, "token", env.token) EXCEPT !.result = Record(env.token, "token")]

\* fetchBasicStatus, and the catch of fetchUsage when it throws
FetchBasicStatus(acc, env) ==
    [Call(acc, "basic", env.basic) EXCEPT !.result = Record(env.basic, "basic")]

\* CopilotProvider.fetchUsage
CopilotResolve(cfg, env) ==
    LET a1 == IF cfg.enterprise
              THEN [Call(Begin, "enterprise", env.enterprise)
                       EXCEPT !.result = Record(env.enterprise, "enterprise")]
              ELSE Begin
    IN  IF cfg.enterprise /\ a1.result.status = "active" THEN a1
        ELSE LET a2 == IF cfg.org
                       THEN [Call(a1, "org", env.org)
                                EXCEPT !.result = Record(env.org, "org")]
                       ELSE a1
             IN  IF cfg.org /\ a2.result.status = "active" THEN a2
                 ELSE LET a3 == IF cfg.copilotToken THEN CopilotTokenBranch(a2, env) ELSE a2
                      IN  IF cfg.copilotToken /\ a3.result.status = "active" THEN a3
                          ELSE FetchBasicStatus(a3, env)

Resolution(provider, cfg, env, acc) ==
    [provider |-> provider, cfg |-> cfg, env |-> env,
     trace |-> acc.trace, result |-> acc.result]

AnthropicFetchUsage ==
    /\ \E cfg \in AnthropicCfgs, env \in AnthropicEnvs :
          res' = Resolution("anthropic", cfg, env, AnthropicResolve(cfg, env))
    /\ UNCHANGED nonResVars

LegacyAnthropicFetchUsage ==
    /\ \E cfg \in AnthropicCfgs, env \in AnthropicEnvs :
          /\ ~cfg.session
          /\ env.web = "error"
          /\ res' = Resolution("anthropic-legacy", cfg, env, LegacyAnthropicResolve(cfg, env))
    /\ UNCHANGED nonResVars

CopilotFetchUsage ==
    /\ \E cfg \in CopilotCfgs, env \in CopilotEnvs :
          res' = Resolution("copilot", cfg, env, CopilotResolve(cfg, env))
    /\ UNCHANGED nonResVars

InitResolve ==
    /\ now = 0
    /\ cache = EmptyMap
    /\ config = [enabled |-> TRUE, monitoredApis |-> Providers]
    /\ agg = IdleCall
    /\ cacheOp = NoCacheOp
    /\ lastSet = EmptyMap
    /\ ExtInit

NextResolve ==
    \/ AnthropicFetchUsage
    \/ LegacyAnthropicFetchUsage
    \/ CopilotFetchUsage

SpecResolve == InitResolve /\ [][NextResolve]_vars

-----------------------------------------------------------------------------
(* The normalisation of raw payloads into ProviderUsage records: SpecNorm *)

\* the state outside the normaliser
nonNormVars == <<now, coreVars, warpVars, res, fetched, direct, configStorage, providers>>

\* Math.max
Max(a, b) == IF a >= b THEN a ELSE b

\* Math.round(n / d) for d > 0: the nearest integer, a half rounded up
Round(n, d) == (2 * n + d) \div (2 * d)

\* the rateLimit and quota of a ProviderUsage; percentages are kept in tenths
\* of a percent, the finest grain the providers produce
Usage(limit, remaining, percentage, quotaPercentage) ==
    [rateLimit |-> [limit |-> limit, remaining |-> remaining, percentage |-> percentage],
     quota |-> [percentage |-> quotaPercentage]]

\* CLAUDE_TIERS: pro, max_5x, max_20x
ClaudeTiers ==
    {[fiveHourMessages |-> 45, weeklyMessages |-> 500],
     [fiveHourMessages |-> 225, weeklyMessages |-> 2500],
     [fiveHourMessages |-> 900, weeklyMessages |-> 10000]}

\* a reported utilization, in percent
Utilizations == {0, 50, 100, MaxUtilization}

\* the record fetchOAuthUsage and fetchWebSessionUsage build from
\* fiveHourPercent = Math.round(utilization) and sevenDayPercent
AnthropicBuildUsage(fiveHourPercent, sevenDayPercent, tier) ==
    LET estimatedFiveHourUsed == Round(fiveHourPercent * tier.fiveHourMessages, 100)
    IN  Usage(tier.fiveHourMessages,
              tier.fiveHourMessages - estimatedFiveHourUsed,
              (100 - fiveHourPercent) * Tenths,
              sevenDayPercent * Tenths)

\* the premium quota of a Copilot /user answer: a quota_snapshots entry
\* (entitlement, remaining) or a usage entry (limit, used)
CopilotPayloads ==
    [kind : {"quota_snapshots", "usage"}, limit : {0, 100},
     count : {0 - 50, 0, 50, 100, MaxUtilization}]

\* CopilotProvider.buildUsageFromUserQuota
BuildUsageFromUserQuota(userData) ==
    LET premiumLimit == userData.limit
        premiumUsed == IF userData.kind = "quota_snapshots"
                       THEN Max(0, premiumLimit - userData.count)
                       ELSE userData.count
        premiumPercentage == IF premiumLimit > 0
                             THEN Round(premiumUsed * 100 * Tenths, premiumLimit)
                             ELSE 0
    IN  Usage(IF premiumLimit # 0 THEN premiumLimit ELSE 100,
              IF premiumLimit > 0 THEN premiumLimit - premiumUsed ELSE 100,
              premiumPercentage,
              premiumPercentage)

\* RATE_LIMIT_TIERS: free, free_api_key, pro (and code_assist_enterprise,
\* which has the same limits), code_assist_standard
RateLimitTiers ==
    {[requestsPerMinute |-> 60, requestsPerDay |-> 1000],
     [requestsPerMinute |-> 10, requestsPerDay |-> 250],
     [requestsPerMinute |-> 120, requestsPerDay |-> 2000],
     [requestsPerMinute |-> 120, requestsPerDay |-> 1500]}

\* AntigravityProvider.calculateRPM over used sessions of the last minute
CalculateRPM(used, tier) ==
    LET limit == tier.requestsPerMinute
        remaining == Max(0, limit - used)
    IN  [limit |-> limit, remaining |-> remaining,
         percentage |-> Round(remaining * 100, limit) * Tenths]

\* AntigravityProvider.calculateRPD over used sessions since midnight
CalculateRPD(used, tier) ==
    [percentage |-> Round(used * 100, tier.requestsPerDay) * Tenths]

\* fetchOAuthUsage parses an answer of the OAuth usage endpoint
OAuthNormalise ==
    /\ \E p5 \in Utilizations, p7 \in Utilizations, tier \in ClaudeTiers :
          norm' = [source |-> "anthropic-oauth",
                   payload |-> [fiveHour |-> p5, sevenDay |-> p7, tier |-> tier],
                   usage |-> AnthropicBuildUsage(p5, p7, tier)]
    /\ UNCHANGED nonNormVars

\* fetchWebSessionUsage parses an answer of claude.ai
WebSessionNormalise ==
    /\ \E p5 \in Utilizations, p7 \in Utilizations, tier \in ClaudeTiers :
          norm' = [source |-> "anthropic-web",
                   payload |-> [fiveHour |-> p5, sevenDay |-> p7, tier |-> tier],
                   usage |-> AnthropicBuildUsage(p5, p7, tier)]
    /\ UNCHANGED nonNormVars

\* buildUsageFromUserQuota on an answer of copilot_internal/user
CopilotNormalise ==
    /\ \E userData \in CopilotPayloads :
          norm' = [source |-> "copilot", payload |-> userData,
                   usage |-> BuildUsageFromUserQuota(userData)]
    /\ UNCHANGED nonNormVars

\* AntigravityProvider.fetchUsage over the sessions found on disk: the
\* sessions of the last minute are among those of the day
AntigravityNormalise ==
    /\ \E tier \in RateLimitTiers, m \in 0..3, d \in 0..3 :
          LET usedMinute == (m * tier.requestsPerMinute) \div 2
              usedDay == usedMinute + (d * tier.requestsPerDay) \div 2
          IN  norm' = [source |-> "antigravity",
                       payload |-> [usedMinute |-> usedMinute, usedDay |-> usedDay,
                                    tier |-> tier],
                       usage |-> [rateLimit |-> CalculateRPM(usedMinute, tier),
                                  quota |-> CalculateRPD(usedDay, tier)]]
    /\ UNCHANGED nonNormVars

InitNorm ==
    /\ now = 0
    /\ cache = EmptyMap
    /\ config = [enabled |-> TRUE, monitoredApis |-> Providers]
    /\ agg = IdleCall
    /\ cacheOp = NoCacheOp
    /\ lastSet = EmptyMap
    /\ ExtInit

NextNorm ==
    \/ OAuthNormalise
    \/ WebSessionNormalise
    \/ CopilotNormalise
    \/ AntigravityNormalise

SpecNorm == InitNorm /\ [][NextNorm]_vars

-----------------------------------------------------------------------------
(* fetchUsage of every provider, from the answers of the outside: SpecFetch *)

\* the state outside one fetchUsage call
nonFetchVars == <<now, coreVars, warpVars, res, norm, direct, configStorage, providers>>

\* a ProviderUsage that carries a tokens field
UsageRecord(id, status, requests, cost, tokens) ==
    [id |-> id, status |-> status, requests |-> requests, cost |-> cost,
     hasTokens |-> TRUE, tokens |-> tokens]

\* a record that carries a rateLimit window
WithRateLimit(u) == MapPut(u, "rateLimit", [present |-> TRUE])

\* a record that carries a quota window
WithQuota(u) == MapPut(u, "quota", [present |-> TRUE])

\* the body of a try block: it returns a record or throws
Threw == [threw |-> TRUE]

Returned(u) == [threw |-> FALSE, usage |-> u]

\* a request to an outside endpoint and whether it answered usably
Request(endpoint, ok) == [endpoint |-> endpoint, ok |-> ok]

TryCatchWrong(id, body) == body

\* try { body } catch (error) { return this.createErrorUsage(error) }
TryCatch(id, body) ==
    IF body.threw THEN Returned(CreateErrorUsage(id)) ELSE body

\* the promise of an async function: rejected when the function throws
Settle(body) == IF body.threw THEN Rejected ELSE Fulfilled(body.usage)

\* a fetchUsage call: the answers it got, the requests it sent, its promise
Fetch(id, env, requests, body) ==
    [provider |-> id, env |-> env, requests |-> requests,
     outcome |-> Settle(TryCatch(id, body))]

\* counts reported by a payload
Counts == {0, 7}

ZaiPlanCost == 20

\* the requests of a resolution: its source calls apart from file reads
RequestsOf(trace) ==
    LET calls == SelectSeq(trace, LAMBDA call :
                     call.source \notin {"enrich", "detailedUsage", "local"})
    IN  [i \in 1..Len(calls) |-> Request(calls[i].source, calls[i].status = "active")]

AnthropicUsageWrong(result, count) ==
    WithRateLimit(UsageRecord("anthropic", result.status, 0, 0, 0))

\* the record a source of AnthropicProvider builds
AnthropicUsage(result, count) ==
    IF result.status # "active" THEN UsageRecord("anthropic", "error", 0, 0, 0)
    ELSE IF result.from = "probe"
    THEN WithRateLimit(UsageRecord("anthropic", "active", 0, 0, 0))
    ELSE WithQuota(WithRateLimit(UsageRecord("anthropic", "active", count, 20, count)))

\* the record a source of CopilotProvider builds
CopilotUsage(result, count) ==
    CASE result.from \in {"enterprise", "org"} ->
            UsageRecord("copilot", "active", count, count * 19, count * 10)
      [] result.from = "userQuota" ->
            WithQuota(WithRateLimit(UsageRecord("copilot", "active", count, 10, count * 500)))
      [] result.from = "token" ->
            WithRateLimit(UsageRecord("copilot", "active", 0, 10, 0))
      [] OTHER -> UsageRecord("copilot", "active", 0, 0, 0)

\* OpenAIProvider.fetchUsage: a non-OK answer throws, a payload whose totals
\* are not numbers makes cost.toFixed throw
OpenAIFetch ==
    /\ fetched = NoFetch
    /\ \E env \in [response : {"throws", "unauthorized", "notOk", "ok"},
                   malformed : BOOLEAN, requests : Counts, cost : Counts,
                   tokens : Counts] :
          fetched' = Fetch("openai", env, <<Request("usage", env.response = "ok")>>,
              IF env.response = "ok" /\ ~env.malformed
              THEN Returned(UsageRecord("openai", "active", env.requests, env.cost,
                                        env.tokens))
              ELSE Threw)
    /\ UNCHANGED nonFetchVars

\* VercelProvider.fetchUsage: no request at all
VercelFetch ==
    /\ fetched = NoFetch
    /\ fetched' = Fetch("vercel", [none |-> TRUE], <<>>,
                        Returned(UsageRecord("vercel", "active", 0, 0, 0)))
    /\ UNCHANGED nonFetchVars

\* OpenRouterProvider.fetchUsage: fetchCredits yields null and fetchActivity
\* yields [] when the endpoint fails; an activity payload that is not a list
\* makes aggregateActivity throw
OpenRouterFetch ==
    /\ fetched = NoFetch
    /\ \E env \in [credits : {"fail", "ok"}, activity : {"fail", "ok", "malformed"},
                   count : Counts] :
          LET total == IF env.activity = "ok" THEN env.count ELSE 0
              usage == UsageRecord("openrouter", "active", total, total, total)
          IN  fetched' = Fetch("openrouter", env,
                  <<Request("credits", env.credits = "ok"),
                    Request("activity", env.activity # "fail")>>,
                  IF env.activity = "malformed" THEN Threw
                  ELSE Returned(IF env.credits = "ok" THEN WithQuota(usage) ELSE usage))
    /\ UNCHANGED nonFetchVars

\* GoogleAIProvider.fetchUsage: fetchRateLimitInfo yields null when the
\* endpoint fails, buildUsage then takes a default rate limit; a cache file
\* without totals makes buildUsage throw
GoogleFetch ==
    /\ fetched = NoFetch
    /\ \E env \in [models : {"fail", "ok"}, localCache : {"none", "ok", "malformed"},
                   count : Counts] :
          LET total == IF env.localCache = "ok" THEN env.count ELSE 0
          IN  fetched' = Fetch("google", env, <<Request("models", env.models = "ok")>>,
                  IF env.localCache = "malformed" THEN Threw
                  ELSE Returned(WithRateLimit(
                           UsageRecord("google", "active", total, 0, total))))
    /\ UNCHANGED nonFetchVars

\* ZaiProvider.fetchUsage: fetchQuotaLimit yields null when the endpoint fails
\* or the payload cannot be read; buildUsage(null) still builds the plan record
ZaiFetch ==
    /\ fetched = NoFetch
    /\ \E env \in [quota : {"fail", "ok"}, timeLimit : BOOLEAN, tokensLimit : BOOLEAN,
                   count : Counts] :
          LET timeLimit == env.quota = "ok" /\ env.timeLimit
              tokenLimit == env.quota = "ok" /\ env.tokensLimit
              usage == UsageRecord("zai", "active",
                                   IF timeLimit THEN env.count ELSE 0, ZaiPlanCost,
                                   IF tokenLimit THEN env.count ELSE 0)
              u1 == IF timeLimit THEN WithRateLimit(usage) ELSE usage
          IN  fetched' = Fetch("zai", env, <<Request("quota", env.quota = "ok")>>,
                  Returned(IF tokenLimit THEN WithQuota(u1) ELSE u1))
    /\ UNCHANGED nonFetchVars

WarpFetchWrong ==
    /\ fetched = NoFetch
    /\ \E env \in [token : {"", "kc", "env"}, graphql : {"fail", "ok"}, count : Counts] :
          fetched' = Fetch("warp", env,
              <<Request("graphql", env.token # "" /\ env.graphql = "ok")>>,
              IF env.token # "" /\ env.graphql = "ok"
              THEN Returned(WithRateLimit(
                       UsageRecord("warp", "active", env.count, 0, env.count * 1000)))
              ELSE Threw)
    /\ UNCHANGED nonFetchVars

\* WarpProvider.fetchUsage: the token getAuthToken returned ("" is null), then
\* the GraphQL request, which throws on a non-OK or unexpected answer
WarpFetch ==
    /\ fetched = NoFetch
    /\ \E env \in [token : {"", "kc", "env"}, graphql : {"fail", "ok"}, count : Counts] :
          fetched' = Fetch("warp", env,
              IF env.token = "" THEN <<>>
              ELSE <<Request("graphql", env.graphql = "ok")>>,
              IF env.token = ""
              THEN Returned(UsageRecord("warp", "inactive", 0, 0, 0))
              ELSE IF env.graphql = "ok"
              THEN Returned(WithRateLimit(
                       UsageRecord("warp", "active", env.count, 0, env.count * 1000)))
              ELSE Threw)
    /\ UNCHANGED nonFetchVars

\* AntigravityProvider.fetchUsage: session files on disk, no request
AntigravityFetch ==
    /\ fetched = NoFetch
    /\ \E env \in [sessions : {"throws", "none", "some"}, isActive : BOOLEAN,
                   count : Counts] :
          fetched' = Fetch("antigravity", env, <<>>,
              IF env.sessions = "throws" THEN Threw
              ELSE IF env.sessions = "some"
              THEN Returned(WithQuota(WithRateLimit(
                       UsageRecord("antigravity", "active", env.count, env.count,
                                   env.count))))
              ELSE Returned(WithQuota(WithRateLimit(
                       UsageRecord("antigravity",
                                   IF env.isActive THEN "active" ELSE "inactive",
                                   0, 0, 0)))))
    /\ UNCHANGED nonFetchVars

\* AnthropicProvider.fetchUsage of openai.ts; a stats cache that cannot be
\* aggregated makes buildUsageFromLocalStats throw
AnthropicFetch ==
    /\ fetched = NoFetch
    /\ \E cfg \in AnthropicCfgs, env \in AnthropicEnvs, malformed \in BOOLEAN,
          count \in Counts :
          LET r == AnthropicResolve(cfg, env)
          IN  fetched' = Fetch("anthropic",
                  [cfg |-> cfg, env |-> env, malformed |-> malformed],
                  RequestsOf(r.trace),
                  IF r.result.from = "local" /\ malformed THEN Threw
                  ELSE Returned(AnthropicUsage(r.result, count)))
    /\ UNCHANGED nonFetchVars

\* CopilotProvider.fetchUsage: fetchBasicStatus throws on a non-OK answer
CopilotFetch ==
    /\ fetched = NoFetch
    /\ \E cfg \in CopilotCfgs, env \in CopilotEnvs, count \in Counts :
          LET r == CopilotResolve(cfg, env)
          IN  fetched' = Fetch("copilot", [cfg |-> cfg, env |-> env],
                  RequestsOf(r.trace),
                  IF r.result.status = "active"
                  THEN Returned(CopilotUsage(r.result, count))
                  ELSE Threw)
    /\ UNCHANGED nonFetchVars

FetchWithRetryWrong(fetchFn, maxRetries, baseDelay) ==
    LET RECURSIVE Loop(_, _, _)
        Loop(attempt, calls, delays) ==
            IF attempt >= maxRetries
            THEN [calls |-> calls, delays |-> delays, threw |-> TRUE,
                  value |-> "Max retries exceeded"]
            ELSE LET r == fetchFn[attempt + 1]
                     delay == baseDelay * 2 ^ attempt
                 IN  IF r.ok
                     THEN [calls |-> Append(calls, r), delays |-> delays,
                           threw |-> FALSE, value |-> r.value]
                     ELSE IF attempt = maxRetries - 1
                          THEN [calls |-> Append(calls, r), delays |-> Append(delays, delay),
                                threw |-> TRUE, value |-> r.value]
                          ELSE Loop(attempt + 1, Append(calls, r),
                                    Append(delays, delay))
        out == Loop(0, <<>>, <<>>)
    IN  /\ fetched = NoFetch
        /\ direct' = [op |-> "fetchWithRetry", invoked |-> <<>>,
                      maxRetries |-> maxRetries, baseDelay |-> baseDelay,
                      calls |-> out.calls, delays |-> out.delays,
                      threw |-> out.threw, value |-> out.value]
        /\ UNCHANGED <<now, coreVars, warpVars, res, norm, fetched>>
        /\ UNCHANGED <<configStorage, providers>>

\* BaseProvider.fetchWithRetry; fetchFn[k] is what the k-th call of fetchFn
\* settles with, delays are the setTimeout waits in order
FetchWithRetry(fetchFn, maxRetries, baseDelay) ==
    LET RECURSIVE Loop(_, _, _)
        Loop(attempt, calls, delays) ==
            IF attempt >= maxRetries
            THEN [calls |-> calls, delays |-> delays, threw |-> TRUE,
                  value |-> "Max retries exceeded"]
            ELSE LET r == fetchFn[attempt + 1]
                     delay == baseDelay * 2 ^ attempt
                 IN  IF r.ok
                     THEN [calls |-> Append(calls, r), delays |-> delays,
                           threw |-> FALSE, value |-> r.value]
                     ELSE IF attempt = maxRetries - 1
                          THEN [calls |-> Append(calls, r), delays |-> delays,
                                threw |-> TRUE, value |-> r.value]
                          ELSE Loop(attempt + 1, Append(calls, r),
                                    Append(delays, delay))
        out == Loop(0, <<>>, <<>>)
    IN  /\ fetched = NoFetch
        /\ direct' = [op |-> "fetchWithRetry", invoked |-> <<>>,
                      maxRetries |-> maxRetries, baseDelay |-> baseDelay,
                      calls |-> out.calls, delays |-> out.delays,
                      threw |-> out.threw, value |-> out.value]
        /\ UNCHANGED <<now, coreVars, warpVars, res, norm, fetched>>
        /\ UNCHANGED <<configStorage, providers>>

\* the caller takes the settled promise; the provider is free for a new call
FetchUsageReturns ==
    /\ fetched # NoFetch
    /\ fetched' = NoFetch
    /\ UNCHANGED nonFetchVars

InitFetch ==
    /\ now = 0
    /\ cache = EmptyMap
    /\ config = [enabled |-> TRUE, monitoredApis |-> Providers]
    /\ agg = IdleCall
    /\ cacheOp = NoCacheOp
    /\ lastSet = EmptyMap
    /\ ExtInit

NextFetch ==
    \/ OpenAIFetch
    \/ VercelFetch
    \/ OpenRouterFetch
    \/ GoogleFetch
    \/ ZaiFetch
    \/ WarpFetch
    \/ AntigravityFetch
    \/ AnthropicFetch
    \/ CopilotFetch
    \/ FetchUsageReturns
    \/ \E fetchFn \in [1..3 -> {[ok |-> TRUE, value |-> "v"],
                                [ok |-> FALSE, value |-> "e1"],
                                [ok |-> FALSE, value |-> "e2"]}],
          maxRetries \in 0..3, baseDelay \in {1, 1000} :
          FetchWithRetry(fetchFn, maxRetries, baseDelay)

SpecFetch == InitFetch /\ [][NextFetch]_vars

-----------------------------------------------------------------------------
(* The aggregator's single-provider and health operations: SpecDirect *)

\* the days argument when the request gives none
DefaultDays == 7

ProviderCacheKeyWrong(providerId, days) == "usage:" \o ToString(days) \o "d"

\* `usage:${providerId}:${days}d`
ProviderCacheKey(providerId, days) ==
    "usage:" \o providerId \o ":" \o ToString(days) \o "d"

\* fetchProviderUsageById; the provider's promise settles within the step;
\* returned is the value the call resolves to, None for null
FetchProviderUsageById(providerId, days) ==
    LET key == ProviderCacheKey(providerId, days)
        cached == CacheGetResult(cache, key, now)
        call == [op |-> "fetchProviderUsageById", providerId |-> providerId,
                 enabled |-> config.enabled, invoked |-> <<>>,
                 returned |-> None]
    IN  /\ IF ~Includes(Providers, providerId)
           THEN /\ direct' = MapPut(call, "found", FALSE)
                /\ cache' = cache
           ELSE IF cached.hit
           THEN /\ direct' = MapPut([call EXCEPT !.returned = Some(cached.value)],
                                    "result", Fulfilled(cached.value))
                /\ cache' = CacheGetStore(cache, key, now)
           ELSE \E o \in Outcomes(providerId) :
                   /\ direct' = MapPut([call EXCEPT !.invoked = <<providerId>>,
                                                    !.returned =
                                                        IF o.state = "fulfilled"
                                                        THEN Some(o.value)
                                                        ELSE None],
                                       "result", o)
                   /\ cache' = IF o.state = "fulfilled"
                               THEN CacheSet(CacheGetStore(cache, key, now), key,
                                             o.value, 0, now)
                               ELSE CacheGetStore(cache, key, now)
        /\ UNCHANGED <<now, config, agg, cacheOp, lastSet>>
        /\ UNCHANGED <<warpVars, res, norm, fetched, configStorage, providers>>

\* checkProviderHealth: healthCheck of every provider, in order
CheckProviderHealth ==
    /\ \E health \in [1..Len(Providers) -> BOOLEAN] :
          direct' = [op |-> "checkProviderHealth", enabled |-> config.enabled,
                     invoked |-> Providers, health |-> health]
    /\ UNCHANGED <<now, cache, config, agg, cacheOp, lastSet>>
    /\ UNCHANGED <<warpVars, res, norm, fetched, configStorage, providers>>

NextDirect ==
    \/ \E id \in ApiNames \cup {"unknown"} : FetchProviderUsageById(id, DefaultDays)
    \/ CheckProviderHealth
    \/ \E b \in BOOLEAN : AdminSetEnabled(b)
    \/ Tick

SpecDirect == Init /\ [][NextDirect]_vars

-----------------------------------------------------------------------------
(* Two requests for the usage overview at the same time: SpecConcurrent *)

\* a second fetchAllUsage call, made by another request while the call in agg
\* is awaiting its providers; its own providers settle within the step
FetchAllUsageMeanwhile(days) ==
    /\ agg.pc = "awaiting"
    /\ LET key == CacheKey(days)
           cached == CacheGetResult(cache, key, now)
           mp == MonitoredProviders(config)
           call == [op |-> "fetchAllUsage", days |-> days, hit |-> FALSE,
                    invoked |-> <<>>, result |-> DisabledUsageData(now)]
       IN  IF ~IsEnabled(config)
           THEN /\ direct' = call
                /\ cache' = cache
           ELSE IF cached.hit
           THEN /\ direct' = [call EXCEPT !.hit = TRUE, !.result = cached.value]
                /\ cache' = CacheGetStore(cache, key, now)
           ELSE \E results \in [1..Len(mp) -> UNION {Outcomes(id) : id \in ApiNames}] :
                   /\ \A i \in 1..Len(mp) : results[i] \in Outcomes(mp[i])
                   /\ direct' = [call EXCEPT !.invoked = mp,
                                             !.result = BuildUsageData(results, now)]
                   /\ cache' = CacheSet(CacheGetStore(cache, key, now), key,
                                        BuildUsageData(results, now), 0, now)
    /\ UNCHANGED <<now, config, agg, cacheOp, lastSet>>
    /\ UNCHANGED <<warpVars, res, norm, fetched, configStorage, providers>>

NextConcurrent ==
    \/ FetchAllUsageStart(DefaultDays)
    \/ \E i \in 1..Len(Providers) : ProviderSettles(i)
    \/ FetchAllUsageFinish
    \/ FetchAllUsageMeanwhile(DefaultDays)
    \/ Tick

SpecConcurrent == Init /\ [][NextConcurrent]_vars

-----------------------------------------------------------------------------
(* The administrative routes of the API: SpecAdmin *)

ToggleMonitoringWrong(body) ==
    /\ config' = SetEnabled(config, IF body # None /\ body[1] THEN TRUE
                                    ELSE ~IsEnabled(config))
    /\ direct' = [op |-> "toggleMonitoring", invoked |-> <<>>, body |-> body,
                  before |-> config.enabled, response |-> config']
    /\ UNCHANGED <<now, cache, agg, cacheOp, lastSet>>
    /\ UNCHANGED <<warpVars, res, norm, fetched, configStorage, providers>>

\* POST /api/monitoring/toggle; body is the enabled field of the request
\* body, None when the field is omitted
ToggleMonitoring(body) ==
    /\ config' = SetEnabled(config, IF body # None THEN body[1]
                                    ELSE ~IsEnabled(config))
    /\ direct' = [op |-> "toggleMonitoring", invoked |-> <<>>, body |-> body,
                  before |-> config.enabled, response |-> config']
    /\ UNCHANGED <<now, cache, agg, cacheOp, lastSet>>
    /\ UNCHANGED <<warpVars, res, norm, fetched, configStorage, providers>>

\* setMonitoredApis(apis)
AdminSetMonitoredApis(apis) ==
    /\ config' = [config EXCEPT !.monitoredApis = apis]
    /\ UNCHANGED <<now, cache, agg, cacheOp, lastSet>>
    /\ UNCHANGED extVars

\* updateConfig(request); an absent field is None or an empty list
AdminUpdateConfig(request) ==
    /\ LET RECURSIVE AddApis(_, _)
           AddApis(cfg, apis) ==
               IF apis = <<>> THEN cfg
               ELSE AddApis(AddApi(cfg, Head(apis)), Tail(apis))
           c1 == IF request.enabled # None
                 THEN SetEnabled(config, request.enabled[1]) ELSE config
           c2 == AddApis(c1, request.addApis)
       IN  config' = [c2 EXCEPT !.monitoredApis =
                         SelectSeq(@, LAMBDA a : ~Includes(request.removeApis, a))]
    /\ UNCHANGED <<now, cache, agg, cacheOp, lastSet>>
    /\ UNCHANGED extVars

\* `${key.substring(0, 8)}...${key.slice(-4)}`, a key being a sequence of
\* characters
Mask(key) ==
    LET n == Len(key)
    IN  SubSeq(key, 1, IF n < 8 THEN n ELSE 8) \o <<".", ".", ".">>
            \o SubSeq(key, IF n > 4 THEN n - 3 ELSE 1, n)

\* GET /api/config/keys, for the providers whose keys the routes below store
GetApiKeys ==
    /\ direct' = [op |-> "getApiKeys", invoked |-> <<>>,
                  data |-> [p \in {"anthropic", "zai"} |->
                      [configured |-> p \in DOMAIN configStorage.config,
                       masked |-> IF p \in DOMAIN configStorage.config
                                  THEN Mask(configStorage.config[p])
                                  ELSE None]]]
    /\ UNCHANGED <<now, coreVars, warpVars, res, norm, fetched>>
    /\ UNCHANGED <<configStorage, providers>>

SetApiKeyWrong(provider, apiKey, saved) ==
    /\ providers' = [id \in DOMAIN providers \cup {provider} |-> apiKey]
    /\ direct' = [op |-> "setApiKey", invoked |-> <<>>, provider |-> provider,
                  apiKey |-> apiKey, success |-> saved]
    /\ UNCHANGED <<now, coreVars, warpVars, res, norm, fetched, configStorage>>

\* POST /api/config/keys with a non-empty provider and apiKey;
\* ConfigStorage.setApiKey trims the key, throws on a key isValidApiKey
\* refuses (shorter than 10 characters: every longer one matches /^.{10,}$/),
\* stores nothing for a name outside its keyMap, and updates the memory
\* before saveConfig writes the file or throws (saved = FALSE)
SetApiKey(provider, apiKey, saved) ==
    LET RECURSIVE Trim(_)
        Trim(k) == IF k # <<>> /\ Head(k) = " " THEN Trim(Tail(k))
                   ELSE IF k # <<>> /\ k[Len(k)] = " "
                        THEN Trim(SubSeq(k, 1, Len(k) - 1))
                        ELSE k
        trimmedKey == Trim(apiKey)
        valid == Len(trimmedKey) >= 10
        known == provider \in {"anthropic", "zai"}
        stored == MapPut(configStorage.config, provider, trimmedKey)
    IN  /\ configStorage' =
              IF valid /\ known
              THEN [config |-> stored,
                    file |-> IF saved THEN stored ELSE configStorage.file]
              ELSE configStorage
        /\ direct' = [op |-> "setApiKey", invoked |-> <<>>,
                      provider |-> provider, apiKey |-> apiKey,
                      success |-> valid /\ (known => saved)]
        /\ UNCHANGED <<now, coreVars, warpVars, res, norm, fetched, providers>>

\* DELETE /api/config/keys with a non-empty provider
DeleteApiKey(provider, saved) ==
    LET present == provider \in DOMAIN configStorage.config
        removed == MapRemove(configStorage.config, provider)
    IN  /\ configStorage' =
              IF present
              THEN [config |-> removed,
                    file |-> IF saved THEN removed ELSE configStorage.file]
              ELSE configStorage
        /\ direct' = [op |-> "deleteApiKey", invoked |-> <<>>,
                      provider |-> provider, success |-> present => saved]
        /\ UNCHANGED <<now, coreVars, warpVars, res, norm, fetched, providers>>

\* POST /api/config/reload: ConfigStorage.reloadConfig reads the file again
ReloadProviders ==
    /\ configStorage' = [configStorage EXCEPT !.config = configStorage.file]
    /\ direct' = [op |-> "reloadProviders", invoked |-> <<>>]
    /\ UNCHANGED <<now, coreVars, warpVars, res, norm, fetched, providers>>

NextAdmin ==
    \/ \E body \in {None, Some(TRUE), Some(FALSE)} : ToggleMonitoring(body)
    \/ \E b \in BOOLEAN : AdminSetEnabled(b)
    \/ \E a \in ApiNames \cup {""} : AdminAddApi(a)
    \/ \E a \in ApiNames : AdminRemoveApi(a)
    \/ \E apis \in {<<>>, <<"copilot", "anthropic">>, <<"copilot", "copilot">>} :
          AdminSetMonitoredApis(apis)
    \/ \E request \in [enabled : {None, Some(TRUE), Some(FALSE)},
                       addApis : {<<>>, <<"copilot", "", "copilot">>},
                       removeApis : {<<>>, <<"anthropic">>}] :
          AdminUpdateConfig(request)
    \/ GetApiKeys
    \/ \E provider \in {"anthropic", "zai", "claude_session_key"},
          n \in {9, 10, 13},
          pad \in {<<>>, <<" ">>}, saved \in BOOLEAN :
          SetApiKey(provider, [i \in 1..n |-> "k"] \o pad, saved)
    \/ \E provider \in {"zai", "claude_session_key"}, saved \in BOOLEAN :
          DeleteApiKey(provider, saved)
    \/ ReloadProviders

SpecAdmin == Init /\ [][NextAdmin]_vars

-----------------------------------------------------------------------------
(* A fetch cycle in which the first provider answers and the last may hang *)

\* the continuation after await Promise.allSettled runs once every promise
\* has settled, and the first provider's promise does settle; nothing makes
\* the last provider's promise settle
SpecHang ==
    /\ Init
    /\ [][Next]_vars
    /\ WF_vars(FetchAllUsageFinish)
    /\ WF_vars(ProviderSettles(1))

-----------------------------------------------------------------------------
(* Properties of the aggregator, checked under Spec *)

\* a step in which a fetchAllUsage call starts
StartsCall == agg.pc \in {"idle", "done"} /\ agg' # agg

\* a step in which a fetchAllUsage call returns
ReturnsCall == agg' # agg /\ agg'.pc = "done"

ZeroSummary == [totalRequests |-> 0, totalCost |-> 0, totalTokens |-> 0]

KeyOfWindow(days) == IF days = 1 THEN "usage:1d" ELSE "usage:7d"

MonitoredNames(cfg) == {cfg.monitoredApis[i] : i \in 1..Len(cfg.monitoredApis)}

Occurrences(s, x) == Cardinality({i \in 1..Len(s) : s[i] = x})

RECURSIVE SumOver(_, _)
SumOver(f, idx) ==
    IF idx = {} THEN 0
    ELSE LET i == CHOOSE j \in idx : TRUE IN f[i] + SumOver(f, idx \ {i})

SummaryMatches(u) ==
    LET ps == u.providers
        idx == 1..Len(ps)
    IN  /\ u.summary.totalRequests = SumOver([i \in idx |-> ps[i].requests], idx)
        /\ u.summary.totalCost = SumOver([i \in idx |-> ps[i].cost], idx)
        /\ u.summary.totalTokens =
              SumOver([i \in idx |-> IF ps[i].hasTokens THEN ps[i].tokens ELSE 0], idx)

\* C1: a snapshot built on a cache miss holds exactly one record for every
\* monitored provider, in order: the record a provider's fetchUsage fulfilled
\* with, or, if its fetchUsage rejected, a record of that provider with status
\* error and zeroed metrics.
C1_RejectedProviderKeepsErrorRow ==
    (agg.pc = "done" /\ agg.enabled /\ ~agg.hit) =>
        /\ Len(agg.result.providers) = Len(agg.invoked)
        /\ \A i \in 1..Len(agg.invoked) :
              /\ i <= Len(agg.result.providers)
              /\ agg.result.providers[i].id = agg.invoked[i]
              /\ agg.results[i].state = "fulfilled" =>
                    agg.result.providers[i] = agg.results[i].value
              /\ agg.results[i].state = "rejected" =>
                    /\ agg.result.providers[i].status = "error"
                    /\ agg.result.providers[i].requests = 0
                    /\ agg.result.providers[i].cost = 0

\* C4: a fetchAllUsage call made while monitoring is disabled returns zero
\* totals and an empty provider list, invokes no provider, makes no cache
\* read or write and leaves the cache as it was.
C4_DisabledTouchesNothing ==
    [][(StartsCall /\ ~config.enabled) =>
          /\ agg'.pc = "done"
          /\ agg'.result.summary = ZeroSummary
          /\ agg'.result.providers = <<>>
          /\ agg'.invoked = <<>>
          /\ agg'.cacheGets = 0
          /\ agg'.cacheSets = 0
          /\ cache' = cache]_vars

C4_Witness ==
    /\ agg.pc = "done"
    /\ ~agg.enabled
    /\ ~config.enabled
    /\ DOMAIN cache # {}
    /\ config.monitoredApis = Providers

\* C5: with monitoring enabled, a fetchAllUsage(days) call that follows a
\* returned call for the same days, while the age of the entry that call
\* stored or read is at most the TTL, returns the same snapshot at once and
\* invokes no provider.
C5_SecondCallWithinTtlIsIdentical ==
    [][(/\ StartsCall
        /\ agg.pc = "done"
        /\ agg.enabled
        /\ config.enabled
        /\ agg'.days = agg.days
        /\ now - agg.entryAt <= DefaultTtl) =>
          /\ agg'.pc = "done"
          /\ agg'.result = agg.result
          /\ agg'.invoked = <<>>]_vars

C5_Witness ==
    /\ agg.pc = "done"
    /\ agg.hit
    /\ now = agg.entryAt + DefaultTtl
    /\ Len(agg.result.providers) = Len(Providers)

\* C9: on a cache miss with monitoring enabled, fetchUsage is invoked exactly
\* once on every configured provider whose id is in monitoredApis at that
\* time and on no other, all before any is awaited; the merge happens only
\* when all have settled; with no provider allowed the snapshot is empty with
\* zero totals.
C9_ExactlyTheMonitoredProvidersAreInvoked ==
    [][/\ (StartsCall /\ config.enabled /\ ~agg'.hit) =>
             /\ agg'.pc = "awaiting"
             /\ \A i \in 1..Len(Providers) :
                   Occurrences(agg'.invoked, Providers[i]) =
                      IF Providers[i] \in MonitoredNames(config) THEN 1 ELSE 0
             /\ Len(agg'.results) = Len(agg'.invoked)
             /\ \A i \in 1..Len(agg'.results) : agg'.results[i] = Pending
       /\ (agg.pc = "awaiting" /\ agg'.pc = "done") =>
             /\ \A i \in 1..Len(agg.results) : agg.results[i] # Pending
             /\ agg'.invoked = agg.invoked
             /\ agg.invoked = <<>> =>
                   /\ agg'.result.providers = <<>>
                   /\ agg'.result.summary = ZeroSummary]_vars

C9_Witness ==
    /\ agg.pc = "awaiting"
    /\ agg.invoked = <<"copilot">>
    /\ agg.results[1] # Pending

\* C10: the totals of every returned snapshot are the sums of requests, cost
\* and tokens over its own provider list (absent tokens counting as 0), and a
\* snapshot built on a cache miss is in the cache under usage:<days>d when the
\* call returns.
C10_TotalsAreSumsAndSnapshotIsStored ==
    [][ReturnsCall =>
          /\ SummaryMatches(agg'.result)
          /\ agg.pc = "awaiting" =>
                /\ KeyOfWindow(agg'.days) \in DOMAIN cache'
                /\ cache'[KeyOfWindow(agg'.days)].data = agg'.result
                /\ cache'[KeyOfWindow(agg'.days)].timestamp = now]_vars

C10_Witness ==
    /\ agg.pc = "done"
    /\ agg.enabled
    /\ ~agg.hit
    /\ Len(agg.result.providers) = Len(Providers)
    /\ \E i \in 1..Len(agg.result.providers) : ~agg.result.providers[i].hasTokens
    /\ agg.result.summary.totalTokens > 0

-----------------------------------------------------------------------------
(* Properties of the cache, checked under SpecCache *)

\* C8: get(key) returns the value of the most recent set(key, v, ttl) exactly
\* when the key was not deleted or cleared since and the age of that entry is
\* at most its ttl, and a miss otherwise; a get that finds an expired entry
\* removes it; and an entry only ever changes by being replaced as a whole by
\* a set.
C8_GetReturnsLastSetWithinTtl ==
    [][/\ (cacheOp' # cacheOp /\ cacheOp'.op = "get") =>
             LET k == cacheOp'.key
                 live == /\ k \in DOMAIN lastSet
                         /\ now - lastSet[k].at <= lastSet[k].ttl
             IN  /\ cacheOp'.result.hit <=> live
                 /\ live => cacheOp'.result.value = lastSet[k].value
                 /\ ~live => k \notin DOMAIN cache'
                 /\ \A j \in DOMAIN cache \ {k} :
                       j \in DOMAIN cache' /\ cache'[j] = cache[j]
                 /\ live => cache'[k] = cache[k]
       /\ \A k \in (DOMAIN cache) \cap (DOMAIN cache') :
             cache'[k] # cache[k] =>
                 /\ k \in DOMAIN lastSet'
                 /\ cache'[k] = [data |-> lastSet'[k].value,
                                 timestamp |-> now,
                                 ttl |-> lastSet'[k].ttl]]_vars

C8_Witness ==
    /\ cacheOp.op = "get"
    /\ cacheOp.found
    /\ ~cacheOp.result.hit
    /\ cacheOp.at = now
    /\ cacheOp.key \in DOMAIN lastSet
    /\ cacheOp.key \notin DOMAIN cache

-----------------------------------------------------------------------------
(* Properties of the Warp token lifecycle, checked under SpecWarp *)

\* the callers whose proactive refresh request is in flight
ProactiveInFlight == {c \in Callers : callers[c].pc = "proactive"}

\* C2: when several callers invoke getAuthToken while the cached token is
\* inside the refresh buffer or expired, only one refresh request is issued:
\* at no time are two proactive refresh requests in flight.
C2_SingleRefreshInFlight == Cardinality(ProactiveInFlight) <= 1

\* C6: a call of getAuthToken made while a cached token exists and
\* now < cachedTokenExpiry - 5 min returns the cached token at once, reads no
\* keychain, sends no refresh request and leaves the cached token, its expiry
\* and the refresh token unchanged.
C6_ValidCachedTokenReturnedWithoutIO ==
    [][\A c \in Callers :
          (/\ callers[c].pc \in {"idle", "done"}
           /\ callers'[c] # callers[c]
           /\ warp.cachedToken # ""
           /\ warp.cachedTokenExpiry # None
           /\ now < warp.cachedTokenExpiry[1] - BufferMs)
          => /\ callers'[c].pc = "done"
             /\ callers'[c].result = warp.cachedToken
             /\ callers'[c].keychainReads = 0
             /\ callers'[c].refreshes = 0
             /\ warp' = warp
             /\ keychain' = keychain]_vars

C6_Witness ==
    /\ warp.cachedToken # ""
    /\ warp.cachedTokenExpiry # None
    /\ now < warp.cachedTokenExpiry[1] - BufferMs
    /\ callers[1].pc = "done" /\ callers[1].refreshes > 0
    /\ callers[2].pc = "done"
    /\ callers[2].result = warp.cachedToken
    /\ callers[2].keychainReads = 0
    /\ callers[2].refreshes = 0

-----------------------------------------------------------------------------
(* Properties of the source fallback, checked under SpecResolve *)

\* the place of a source in the declared priority order of its provider
SourceRank(source) ==
    CASE source \in {"web", "enterprise"} -> 1
      [] source \in {"oauth", "org"} -> 2
      [] source \in {"local", "userQuota"} -> 3
      [] source \in {"probe", "token"} -> 4
      [] OTHER -> 5

\* the calls of a resolution that invoke a source, enrichment reads left out
SourceCalls(trace) ==
    SelectSeq(trace, LAMBDA call : call.source \notin {"enrich", "detailedUsage"})

\* C3: within one call of fetchUsage the sources are tried strictly in their
\* priority order; once a source has returned an active record no later
\* source is invoked and that record is the result; and when no live source
\* applies and the local statistics yield a record the API-key probe is never
\* called.
C3_SourcesTriedInPriorityOrder ==
    res.provider # "none" =>
        LET calls == SourceCalls(res.trace)
        IN  /\ \A i, j \in 1..Len(calls) :
                  i < j => SourceRank(calls[i].source) < SourceRank(calls[j].source)
            /\ \A i \in 1..Len(calls) :
                  calls[i].status = "active" =>
                      /\ i = Len(calls)
                      /\ res.result = Record("active", calls[i].source)
            /\ (/\ res.provider \in {"anthropic", "anthropic-legacy"}
                /\ ~res.cfg.session /\ ~res.cfg.oauthToken
                /\ res.env.stats[1])
               => \A i \in 1..Len(calls) : calls[i].source # "probe"

-----------------------------------------------------------------------------
(* Properties of the normalised records, checked under SpecNorm *)

\* C7: every record built from a raw payload has
\* 0 <= rateLimit.remaining <= rateLimit.limit,
\* 0 <= rateLimit.percentage <= 100 and 0 <= quota.percentage <= 100,
\* whatever utilization, remaining count or used count the payload reports.
C7_RecordsAreClamped ==
    norm.source # "none" =>
        /\ 0 <= norm.usage.rateLimit.remaining
        /\ norm.usage.rateLimit.remaining <= norm.usage.rateLimit.limit
        /\ 0 <= norm.usage.rateLimit.percentage
        /\ norm.usage.rateLimit.percentage <= 100 * Tenths
        /\ 0 <= norm.usage.quota.percentage
        /\ norm.usage.quota.percentage <= 100 * Tenths

\* C39: rateLimit.percentage has one meaning in every record: the percentage
\* of the window still remaining, round(100 * remaining / limit) whenever
\* limit > 0; no provider stores the percentage used in that field.  (Compared
\* where 100 * remaining / limit is a whole number, so that the rounding of
\* estimated counts plays no part.)
C39_PercentageIsTheRemainingShare ==
    norm.source # "none" =>
        LET rl == norm.usage.rateLimit
        IN  (rl.limit > 0 /\ (100 * rl.remaining) % rl.limit = 0)
               => rl.percentage = ((100 * rl.remaining) \div rl.limit) * Tenths

-----------------------------------------------------------------------------
(* Properties of fetchUsage, checked under SpecFetch *)

\* C11: whatever the outside answers (exception, non-OK status, malformed
\* payload, missing credential), a provider's fetchUsage resolves to a
\* ProviderUsage record of that provider and never rejects.
C11_FetchUsageAlwaysResolves ==
    fetched.provider # "none" =>
        /\ fetched.outcome.state = "fulfilled"
        /\ fetched.outcome.value.id = fetched.provider
        /\ fetched.outcome.value.status \in {"active", "inactive", "error"}

C11_Witness ==
    /\ fetched.provider = "copilot"
    /\ fetched.requests # <<>>
    /\ \A i \in 1..Len(fetched.requests) : ~fetched.requests[i].ok
    /\ fetched.outcome.state = "fulfilled"
    /\ fetched.outcome.value.status = "error"

\* C12: whenever every external call of a provider fails, the record that
\* fetchUsage returns has status 'error', not 'active'.
C12_AllCallsFailedMeansError ==
    /\ fetched.provider # "none"
    /\ fetched.requests # <<>>
    /\ \A i \in 1..Len(fetched.requests) : ~fetched.requests[i].ok
    => fetched.outcome.value.status = "error"

\* C13: every record with status 'error' has requests = 0 and cost = 0, tokens
\* equal to 0 or absent, and neither a rateLimit nor a quota window.
C13_ErrorRecordsAreZeroed ==
    /\ fetched.provider # "none"
    /\ fetched.outcome.state = "fulfilled"
    /\ fetched.outcome.value.status = "error"
    => /\ fetched.outcome.value.requests = 0
       /\ fetched.outcome.value.cost = 0
       /\ fetched.outcome.value.hasTokens => fetched.outcome.value.tokens = 0
       /\ "rateLimit" \notin DOMAIN fetched.outcome.value
       /\ "quota" \notin DOMAIN fetched.outcome.value

\* an error record built by a source itself, not by the catch
C13_Witness ==
    /\ fetched.provider = "anthropic"
    /\ fetched.outcome.state = "fulfilled"
    /\ fetched.outcome.value.status = "error"
    /\ fetched.outcome.value.hasTokens
    /\ fetched.requests # <<>>

\* C18: when getAuthToken yields no token, WarpProvider.fetchUsage does not
\* raise and sends no request to the GraphQL endpoint; it returns a record
\* with status 'inactive', requests = cost = tokens = 0 and no rate-limit
\* window.
C18_NoTokenMeansInactiveWithoutRequest ==
    fetched.provider = "warp" /\ fetched.env.token = "" =>
        /\ fetched.requests = <<>>
        /\ fetched.outcome.state = "fulfilled"
        /\ fetched.outcome.value.status = "inactive"
        /\ fetched.outcome.value.requests = 0
        /\ fetched.outcome.value.cost = 0
        /\ fetched.outcome.value.hasTokens
        /\ fetched.outcome.value.tokens = 0
        /\ "rateLimit" \notin DOMAIN fetched.outcome.value

\* no token, and an endpoint that would have answered
C18_Witness ==
    /\ fetched.provider = "warp"
    /\ fetched.env.token = ""
    /\ fetched.env.graphql = "ok"
    /\ fetched.requests = <<>>
    /\ fetched.outcome.value.status = "inactive"

-----------------------------------------------------------------------------
(* Properties of a fetch cycle with a hanging provider, checked under SpecHang *)

\* C14: a fetch cycle is bounded by an overall deadline: a fetchAllUsage call
\* that is awaiting its providers eventually returns a snapshot, even when one
\* monitored provider's fetchUsage never settles.
C14_CycleReturnsDespiteHungProvider ==
    (agg.pc = "awaiting") ~> (agg.pc = "done")

-----------------------------------------------------------------------------
(* Further properties of WarpProvider, checked under SpecWarp *)

\* C15: the credential state is never partially updated: in every reachable
\* state, also one seen by a concurrent caller across an await, a cached
\* token has the expiry that was set with it, and a cached refresh secret was
\* set together with a cached token, never on its own.
C15_CredentialStateIsWhole ==
    /\ warp.cachedToken # "" => warp.cachedTokenExpiry # None
    /\ warp.cachedRefreshToken # "" => warp.cachedToken # ""

\* C16: when the cached token is inside the buffer or expired, a refresh
\* secret is cached and the refresh succeeds, getAuthToken returns the newly
\* issued token, the cached token is the new token, the cached expiry is the
\* time of the refresh plus expiresIn, the cached refresh secret is the
\* rotated secret if the issuer returned one and the secret the refresh was
\* made with otherwise, and the call reads no keychain.
C16_ProactiveRefreshReplacesCredentials ==
    [][\A c \in Callers :
          /\ callers[c].pc = "proactive"
          /\ callers'[c] # callers[c]
          /\ callers'[c].answer.ok
          => /\ callers'[c].pc = "done"
             /\ callers'[c].result = callers'[c].answer.idToken
             /\ callers'[c].result \in FreshTokens
             /\ warp'.cachedToken = callers'[c].answer.idToken
             /\ warp'.cachedTokenExpiry = Some(now + callers'[c].answer.expiresIn)
             /\ warp'.cachedRefreshToken = callers'[c].answer.refreshToken
             /\ warp'.cachedRefreshToken \in {"rt1", callers[c].sentRt}
             /\ callers'[c].keychainReads = 0]_vars

C16_Witness ==
    \E c \in Callers :
        /\ callers[c].pc = "done"
        /\ callers[c].answer.ok
        /\ callers[c].refreshes = 1
        /\ callers[c].keychainReads = 0
        /\ callers[c].result = warp.cachedToken
        /\ warp.cachedRefreshToken = callers[c].sentRt

\* C17: whenever the keychain extraction fails in a getAuthToken call and a
\* refresh secret is cached, the call attempts a refresh with the cached
\* secret before it gives up and reports no credential.
C17_RefreshTriedBeforeGivingUp ==
    [][\A c \in Callers :
          /\ callers'[c] # callers[c]
          /\ callers'[c].pc = "done"
          /\ callers'[c].result = ""
          /\ callers'[c].keychainReads >= 1
          /\ warp'.cachedRefreshToken # ""
          => callers'[c].refreshes >= 1]_vars

-----------------------------------------------------------------------------
(* Further properties of the aggregator, checked under Spec *)

\* C19: a change of the monitored-API list takes effect on the very next
\* fetchAllUsage call: a provider that is not in monitoredApis at the time of
\* the call has no record in the result of that call, whatever was fetched
\* before the change.
C19_RemovedApiIsNoLongerReported ==
    [][(StartsCall /\ config.enabled /\ agg'.pc = "done") =>
          \A i \in 1..Len(agg'.result.providers) :
              agg'.result.providers[i].id \in MonitoredNames(config)]_vars

-----------------------------------------------------------------------------
(* Properties of the single-provider operations, checked under SpecDirect *)

\* C20: while monitoring is disabled, fetchProviderUsageById and
\* checkProviderHealth make no call to any provider's fetchUsage or
\* healthCheck.
C20_DisabledMeansNoProviderIsQueried ==
    direct.op # "none" /\ ~direct.enabled => direct.invoked = <<>>

-----------------------------------------------------------------------------
(* Further properties of the fallback chain, checked under SpecResolve *)

\* C21: a lower-priority source is read or called only if every
\* higher-priority source was unusable in this resolution: once a source has
\* answered with an active record nothing else is consulted, not even the
\* local statistics file to enrich the record.
C21_NothingIsConsultedAfterAnAcceptedSource ==
    res.provider # "none" =>
        \A i \in 1..Len(res.trace) :
            res.trace[i].status = "active" => i = Len(res.trace)

\* C36: within one resolution no source is invoked more than once: in a single
\* AnthropicProvider.fetchUsage call the API-key probe request is sent at most
\* once (it is sent only when an API key is configured) and each of the
\* web-session and OAuth endpoints is called at most once, for every
\* combination of source failures.
C36_NoSourceIsInvokedTwice ==
    res.provider = "anthropic" =>
        LET times(source) ==
                Cardinality({i \in 1..Len(res.trace) : res.trace[i].source = source})
        IN  /\ res.cfg.apiKey => times("probe") <= 1
            /\ times("web") <= 1
            /\ times("oauth") <= 1

-----------------------------------------------------------------------------
(* Further properties of the cache, checked under SpecCache *)

\* C22: each run of the background sweep removes exactly the entries whose
\* age exceeds their own ttl at the time of the sweep and leaves every other
\* entry unchanged; no entry that get would still return is removed.
C22_SweepRemovesExactlyTheExpired ==
    [][(cacheOp' # cacheOp /\ cacheOp'.op = "sweep") =>
          /\ DOMAIN cache' =
                {k \in DOMAIN cache : now - cache[k].timestamp <= cache[k].ttl}
          /\ \A k \in DOMAIN cache' : cache'[k] = cache[k]
          /\ \A k \in DOMAIN cache :
                CacheGetResult(cache, k, now).hit => k \in DOMAIN cache']_vars

\* a sweep that removed an entry and kept another
C22_Witness ==
    /\ cacheOp.op = "sweep"
    /\ cacheOp.at = now
    /\ cacheOp.cleaned >= 1
    /\ cache # EmptyMap

-----------------------------------------------------------------------------
(* Retrying a failed provider, checked under Spec *)

\* C38: a transient source failure is retried on the next cycle: after a
\* fetchAllUsage whose snapshot contains an error-status record for some
\* provider, the next fetchAllUsage call for the same window (monitoring
\* enabled, the provider still monitored) invokes that provider's fetchUsage
\* again instead of returning the stored error record.
C38_FailedProviderIsRetriedNextCycle ==
    [][(/\ agg.pc = "done"
        /\ agg' # agg
        /\ agg'.days = agg.days
        /\ IsEnabled(config))
       => \A i \in 1..Len(agg.result.providers) :
             LET p == agg.result.providers[i]
             IN  p.status = "error" /\ IsApiMonitored(config, p.id)
                    => Includes(agg'.invoked, p.id)]_vars

-----------------------------------------------------------------------------
(* Provider selection by documented name, checked under SpecDocumented *)

\* C33: every provider is selected by its documented API name: when
\* fetchAllUsage misses the cache with monitoring enabled, each provider whose
\* documented name (github for the Copilot provider, else its id) is in
\* monitoredApis is invoked; in particular a configured GitHub token with
\* 'github' in monitoredApis causes the Copilot provider to be queried.
C33_DocumentedNameSelectsProvider ==
    [][(agg.pc # "awaiting" /\ agg'.pc = "awaiting") =>
          \A i \in 1..Len(Providers) :
              LET name == IF Providers[i] = "copilot" THEN "github"
                          ELSE Providers[i]
              IN  Includes(config.monitoredApis, name)
                     => Includes(agg'.invoked, Providers[i])]_vars

-----------------------------------------------------------------------------
(* Concurrent requests, checked under SpecConcurrent *)

\* C34: for one window at most one fetch cycle is in flight at any time: a
\* fetchAllUsage call that starts while another call for the same days is
\* still awaiting its providers does not invoke the providers a second time.
C34_OneCycleInFlightPerWindow ==
    [][(/\ direct' # direct
        /\ direct'.op = "fetchAllUsage"
        /\ agg.pc = "awaiting"
        /\ agg.days = direct'.days
        /\ agg.invoked # <<>>)
       => direct'.invoked = <<>>]_vars

-----------------------------------------------------------------------------
(* Properties of the administrative routes, checked under SpecAdmin *)

\* C29: the administrative operations are simple setters: a step that changes
\* the monitoring configuration changes either enabled or monitoredApis, not
\* both, and leaves the cache, the clock and any fetchAllUsage call in
\* progress untouched; so a fetchAllUsage call made while monitoring is
\* enabled and an unexpired snapshot is cached returns that snapshot without
\* invoking a provider, whatever was set in between.
C29_SettersTouchOnlyTheirField ==
    [][/\ config' # config =>
             /\ config'.enabled # config.enabled
                   => config'.monitoredApis = config.monitoredApis
             /\ <<now, cache, agg, cacheOp, lastSet>>' =
                    <<now, cache, agg, cacheOp, lastSet>>
       /\ (/\ agg.pc \in {"idle", "done"}
           /\ agg'.pc # "idle"
           /\ agg' # agg
           /\ IsEnabled(config)
           /\ CacheGetResult(cache, CacheKey(agg'.days), now).hit)
          => /\ agg'.hit
             /\ agg'.invoked = <<>>
             /\ agg'.result = cache[CacheKey(agg'.days)].data
             /\ cache' = cache]_vars

\* the last call ran with monitoring enabled and cached its snapshot;
\* monitoring has been disabled since and the entry is still there, unexpired
C29_Witness ==
    /\ ~config.enabled
    /\ agg.pc = "done"
    /\ agg.enabled
    /\ agg.cacheSets = 1
    /\ CacheGetResult(cache, CacheKey(agg.days), now).hit
    /\ cache[CacheKey(agg.days)].data = agg.result
    /\ now > agg.entryAt

\* C23: POST /api/monitoring/toggle sets enabled to the given boolean when the
\* body carries an enabled field (also enabled: false) and flips the current
\* state when the field is omitted; two consecutive toggles without the field
\* restore the original state; the response carries the state that
\* isEnabled() reports afterwards.
C23_ToggleSetsOrFlips ==
    [][(direct' # direct /\ direct'.op = "toggleMonitoring") =>
          /\ direct'.body # None => config'.enabled = direct'.body[1]
          /\ direct'.body = None => config'.enabled = ~config.enabled
          /\ (/\ direct.op = "toggleMonitoring"
              /\ direct.body = None
              /\ direct'.body = None
              /\ config = direct.response)
             => config'.enabled = direct.before
          /\ direct'.response.enabled = IsEnabled(config')]_vars

\* monitoring was disabled and the request says enabled: false
C23_Witness ==
    /\ direct.op = "toggleMonitoring"
    /\ direct.body = Some(FALSE)
    /\ ~direct.before
    /\ ~config.enabled
    /\ direct.response = config

\* C24: no response exposes a stored API key: for every key setApiKey accepts
\* the masked string returned by GET /api/config/keys hides at least one
\* character, i.e. some other key of the same length, differing from the
\* stored one in one position, produces the same masked string.
C24_MaskHidesACharacter ==
    direct.op = "getApiKeys" =>
        \A p \in DOMAIN direct.data :
            direct.data[p].configured =>
                LET key == configStorage.config[p]
                IN  \E i \in 1..Len(key) :
                        Mask([key EXCEPT ![i] = "z"]) = direct.data[p].masked

\* C28: MonitoringConfigManager keeps monitoredApis a set: after any sequence
\* of addApi, removeApi, updateConfig, setMonitoredApis and setEnabled calls
\* the list contains no id twice.
C28_MonitoredApisHasNoDuplicate ==
    \A i, j \in DOMAIN config.monitoredApis :
        config.monitoredApis[i] = config.monitoredApis[j] => i = j

C32_SuccessMeansStored ==
    [][(direct' # direct /\ direct'.op = "setApiKey") =>
          /\ direct'.success =>
                /\ direct'.provider \in DOMAIN configStorage'.config
                /\ configStorage'.config[direct'.provider] =
                       SelectSeq(direct'.apiKey, LAMBDA ch : ch # " ")
          /\ ~direct'.success => configStorage' = configStorage]_vars

-----------------------------------------------------------------------------
(* Further properties of getAuthToken, checked under SpecWarp *)

\* C25: a single getAuthToken call issues and awaits at most one refresh
\* request, on every path through the call.
C25_AtMostOneRefreshPerCall ==
    \A c \in Callers : callers[c].refreshes <= 1

\* C27: a refresh that fails because the issuer rejected the refresh secret
\* (TOKEN_EXPIRED, INVALID_REFRESH_TOKEN) and one that fails transiently
\* (network exception, server error) are told apart by what is logged: the
\* rejection logs the error-level banner, the transient failure only a debug
\* line, never the other way round; and neither raises out of getAuthToken,
\* which goes on to its next step or returns.
C27_RejectionIsToldFromTransientFailure ==
    \A c \in Callers :
        LET a == callers[c].answer
        IN  "logged" \in DOMAIN a =>
              /\ a.response.errorCode \in {"TOKEN_EXPIRED", "INVALID_REFRESH_TOKEN"}
                    => a.logged = "error"
              /\ (\/ a.response.status = 0
                  \/ /\ a.response.status >= 500
                     /\ a.response.errorCode
                            \notin {"TOKEN_EXPIRED", "INVALID_REFRESH_TOKEN"})
                    => a.logged = "debug"
              /\ callers[c].pc \in {"keychainRefresh", "catchRefresh", "done"}

\* one call ended on a rejected refresh secret, the other on a server error;
\* both returned null
C27_Witness ==
    /\ callers[1].pc = "done" /\ callers[2].pc = "done"
    /\ callers[1].result = "" /\ callers[2].result = ""
    /\ "logged" \in DOMAIN callers[1].answer
    /\ "logged" \in DOMAIN callers[2].answer
    /\ callers[1].answer.response.errorCode = "TOKEN_EXPIRED"
    /\ callers[1].answer.logged = "error"
    /\ callers[2].answer.response.status = 500
    /\ callers[2].answer.logged = "debug"

\* C35: getAuthToken only ever returns a valid token: whenever it returns a
\* token whose expiry is known (the cached expiry, the expiry of the keychain
\* entry it read, or the lifetime in the refresh response) that expiry is
\* later than the time of return.
C35_ReturnedTokenIsUnexpired ==
    [][\A c \in Callers :
          LET r == callers'[c]
          IN  (callers'[c] # callers[c] /\ r.pc = "done" /\ r.result # "") =>
                /\ (r.keychainReads = 0 /\ r.refreshes = 0)
                      => warp.cachedTokenExpiry[1] > now
                /\ r.answer.ok => now + r.answer.expiresIn > now
                /\ (/\ ~r.answer.ok
                    /\ r.keychainReads = 1
                    /\ r.idToken # ""
                    /\ r.result = r.idToken
                    /\ r.expirationTime # None)
                      => r.expirationTime[1] > now
                /\ (/\ ~r.answer.ok
                    /\ r.keychainReads = 1
                    /\ r.idToken = ""
                    /\ keychain.kind # "throws"
                    /\ r.result = keychain.idToken
                    /\ keychain.expirationTime # None)
                      => keychain.expirationTime[1] > now]_vars

\* C37: if WarpProvider was constructed with a manual token, getAuthToken
\* never returns null: where neither the cache, a refresh nor the keychain
\* yields a token (the keychain command throws, returns empty output, or
\* returns data without an ID token) the manual token is returned; and the
\* manual token is never written into the cached credential state.
C37_ManualTokenMeansNeverNull ==
    warp.manualToken # "" =>
        /\ \A c \in Callers : callers[c].pc = "done" => callers[c].result # ""
        /\ warp.cachedToken # warp.manualToken
        /\ warp.cachedRefreshToken # warp.manualToken

-----------------------------------------------------------------------------
(* Properties of BaseProvider.fetchWithRetry, checked under SpecFetch *)

\* C26: fetchWithRetry(fetchFn, maxRetries, baseDelay) calls fetchFn at most
\* maxRetries times, returns the first successful result without a further
\* call, and after maxRetries consecutive failures rethrows the error of the
\* last attempt; after failed attempt k (0-based) it waits baseDelay * 2^k
\* before the next attempt, with no wait after the final failure; the retries
\* stay inside the call: no provider resolution is started or advanced.
C26_RetriesAreBoundedAndLocal ==
    [][(direct' # direct /\ direct'.op = "fetchWithRetry") =>
          LET d == direct'
              n == Len(d.calls)
          IN  /\ n <= d.maxRetries
              /\ \A i \in 1..(n - 1) : ~d.calls[i].ok
              /\ ~d.threw => /\ n >= 1
                             /\ d.calls[n].ok
                             /\ d.value = d.calls[n].value
              /\ d.threw /\ d.maxRetries >= 1 =>
                             /\ n = d.maxRetries
                             /\ ~d.calls[n].ok
                             /\ d.value = d.calls[n].value
              /\ Len(d.delays) = (IF n = 0 THEN 0 ELSE n - 1)
              /\ \A k \in 1..Len(d.delays) :
                     d.delays[k] = d.baseDelay * 2 ^ (k - 1)
              /\ res' = res
              /\ fetched' = fetched]_vars

\* three failures with the default arguments: the last error is rethrown after
\* waits of 1000 and 2000 ms
C26_Witness ==
    /\ direct.op = "fetchWithRetry"
    /\ direct.maxRetries = 3
    /\ Len(direct.calls) = 3
    /\ direct.threw
    /\ direct.calls[1].value = "e1"
    /\ direct.value = "e2"
    /\ direct.delays = <<1000, 2000>>

-----------------------------------------------------------------------------
(* Further properties of the single-provider operation, checked under SpecDirect *)

\* C31: fetchProviderUsageById(id, days): for an id that matches no configured
\* provider it returns null, leaves the cache alone and calls no provider; for
\* a known id with an unexpired entry under usage:<id>:<days>d it returns the
\* cached record without calling the provider; on a miss it calls that
\* provider's fetchUsage exactly once, stores the result under that key and
\* returns it; if fetchUsage rejects it returns null and stores nothing.
C31_SingleProviderFetchIsCacheGated ==
    [][(direct' # direct /\ direct'.op = "fetchProviderUsageById") =>
          LET d == direct'
              id == d.providerId
              key == "usage:" \o id \o ":" \o ToString(DefaultDays) \o "d"
              unexpired == key \in DOMAIN cache /\ ~Expired(cache[key], now)
          IN  /\ ~Includes(Providers, id) =>
                    /\ d.returned = None
                    /\ d.invoked = <<>>
                    /\ cache' = cache
              /\ Includes(Providers, id) /\ unexpired =>
                    /\ d.returned = Some(cache[key].data)
                    /\ d.invoked = <<>>
                    /\ cache' = cache
              /\ Includes(Providers, id) /\ ~unexpired =>
                    /\ d.invoked = <<id>>
                    /\ d.result.state = "fulfilled" =>
                          /\ d.returned = Some(d.result.value)
                          /\ key \in DOMAIN cache'
                          /\ cache'[key].data = d.result.value
                          /\ cache'[key].timestamp = now
                    /\ d.result.state = "rejected" =>
                          /\ d.returned = None
                          /\ key \notin DOMAIN cache'
                    /\ \A k \in DOMAIN cache \ {key} :
                          k \in DOMAIN cache' /\ cache'[k] = cache[k]
                    /\ DOMAIN cache' \subseteq DOMAIN cache \cup {key}]_vars

\* the provider was called once and rejected: null is returned and nothing is
\* stored under the provider's key, while another provider's record is cached
C31_Witness ==
    /\ direct.op = "fetchProviderUsageById"
    /\ direct.providerId = "copilot"
    /\ direct.invoked = <<"copilot">>
    /\ direct.result.state = "rejected"
    /\ direct.returned = None
    /\ DOMAIN cache = {ProviderCacheKey("anthropic", DefaultDays)}

====
